---- MODULE Spec2Model ----
(***************************************************************************)
(* A model of the graph/node execution core of wyrm (src/src/lib.rs,       *)
(* src/src/nodes.rs): handles (Variable), nodes, the gradient accumulator  *)
(* of a parameter, graph construction, forward, backward, zero_gradient    *)
(* and the leaf setters.                                                   *)
(*                                                                         *)
(* Conventions.  An array (Arr = ndarray::Array2<f32>) is a record         *)
(* [rows, cols, data] with data a sequence of rows; f32 values are         *)
(* modelled by integers (the operations modelled are +, -, * only).  Row   *)
(* indices are 1-based here where the code is 0-based.  Nodes live in an   *)
(* arena `nodes`; an Rc<Node> is an index into it.  An Option<T> is a      *)
(* sequence of length 0 or 1.  A panic (a failed assertion or an ndarray   *)
(* broadcast error) sets `aborted`, after which nothing runs.  Debug       *)
(* assertions are enabled, as in `cargo test`.                             *)
(***************************************************************************)
EXTENDS Integers, Sequences, FiniteSets, TLC

VARIABLES
    nodes,      \* arena of node records (Rc<T> targets), in creation order
    handles,    \* every Variable ever made: [node, grad, parameters]
    stores,     \* the HogwildParameter backing stores (Arc targets)
    aborted,    \* TRUE once a call has panicked
    steps,      \* number of run-phase calls made so far
    last,       \* record of the latest call: what ran and what it passed down
    workers     \* the worker threads: each one's position in its training loop

vars == <<nodes, handles, stores, aborted, steps, last, workers>>

(***************************************************************************)
(* Bounds of the model.                                                    *)
(***************************************************************************)
MaxSteps == 4

Weights == {1, 2}
Scalars == {2}

(***************************************************************************)
(* Dense arrays.                                                           *)
(***************************************************************************)
Fill(r, c, v) ==
    [rows |-> r, cols |-> c, data |-> [i \in 1..r |-> [j \in 1..c |-> v]]]

Zeros(r, c) == Fill(r, c, 0)

NoArr == [rows |-> 0, cols |-> 0, data |-> <<>>]

Shape(a) == <<a.rows, a.cols>>

\* ndarray broadcasting of `a` to the shape (r, c): each axis equal or 1.
Broadcastable(a, r, c) ==
    /\ (a.rows = r \/ a.rows = 1)
    /\ (a.cols = c \/ a.cols = 1)

\* element (i, j) of `a` seen through a broadcast
BAt(a, i, j) ==
    a.data[IF a.rows = 1 THEN 1 ELSE i][IF a.cols = 1 THEN 1 ELSE j]

\* self.assign(rhs): rhs broadcast into self's shape (caller checks Broadcastable)
Assign(dest, src) ==
    [rows |-> dest.rows, cols |-> dest.cols,
     data |-> [i \in 1..dest.rows |-> [j \in 1..dest.cols |-> BAt(src, i, j)]]]

\* `&a + &b`, a.add_assign(b): b broadcast into a's shape
ArrAdd(a, b) ==
    [a EXCEPT !.data = [i \in 1..a.rows |-> [j \in 1..a.cols |->
                            a.data[i][j] + BAt(b, i, j)]]]

ArrSub(a, b) ==
    [a EXCEPT !.data = [i \in 1..a.rows |-> [j \in 1..a.cols |->
                            a.data[i][j] - BAt(b, i, j)]]]

ArrMul(a, b) ==
    [a EXCEPT !.data = [i \in 1..a.rows |-> [j \in 1..a.cols |->
                            a.data[i][j] * BAt(b, i, j)]]]

\* a * scalar, a.mul_assign(scalar)
Scale(a, k) ==
    [a EXCEPT !.data = [i \in 1..a.rows |-> [j \in 1..a.cols |-> a.data[i][j] * k]]]

\* element k (1-based) of the row-major iteration a.iter()
FlatAt(a, k) == a.data[((k - 1) \div a.cols) + 1][((k - 1) % a.cols) + 1]

FlatLen(a) == a.rows * a.cols

\* operand.select(Axis(0), index): the rows named by index, in order
Select(a, index) ==
    [rows |-> Len(index), cols |-> a.cols,
     data |-> [i \in 1..Len(index) |-> a.data[index[i]]]]

InRange(a, index) == \A i \in 1..Len(index) : index[i] \in 1..a.rows

(***************************************************************************)
(* Node and handle records.                                                *)
(***************************************************************************)
LeafKinds == {"Parameter", "Input", "IndexInput"}
BinaryKinds == {"Add", "Sub", "Mul"}
UnaryKinds == {"Neg"}

\* GradientAccumulator::new
GradientAccumulator_new(dense_shape) ==
    [dense_shape |-> dense_shape,
     dense_gradient |-> <<>>,
     sparse_gradient |-> <<>>,
     has_dense |-> FALSE,
     has_sparse |-> FALSE]

BlankNode ==
    [kind |-> "Input", lhs |-> 0, rhs |-> 0, value |-> NoArr,
     needs_gradient |-> FALSE,
     lhs_gradient |-> NoArr, rhs_gradient |-> NoArr,
     index_value |-> <<>>, ivalue |-> <<>>, addr |-> 0, store |-> 0,
     gradient |-> GradientAccumulator_new(<<0, 0>>)]

\* Variable::new
Variable_new(node, parameters) ==
    [node |-> node, grad |-> <<>>, parameters |-> parameters, cloned |-> FALSE]

\* Node::value() of node n in arena ns: a parameter reads its backing store
Value(ns, n) ==
    IF ns[n].kind = "Parameter" THEN stores[ns[n].store] ELSE ns[n].value

\* nodes whose Value type is Arr (IndexInputNode's is a list of indices)
IsArrNode(ns, n) == ns[n].kind # "IndexInput"

(***************************************************************************)
(* Parameter lists.  A list holds the arena indices of ParameterNodes; the *)
(* order is by as_ptr(), the node's address, which the allocator chooses.  *)
(***************************************************************************)
\* an as_ptr that is the address of the backing store
as_ptr_store(p) == nodes[p].store

\* Variable<ParameterNode>::as_ptr
as_ptr(p) == nodes[p].addr

\* a merge that keeps both elements of a Both
RECURSIVE merge_parameters_keep_both(_, _)
merge_parameters_keep_both(xs, ys) ==
    IF xs = <<>> THEN ys
    ELSE IF ys = <<>> THEN xs
    ELSE IF as_ptr(Head(xs)) <= as_ptr(Head(ys))
         THEN <<Head(xs)>> \o merge_parameters_keep_both(Tail(xs), ys)
    ELSE <<Head(ys)>> \o merge_parameters_keep_both(xs, Tail(ys))

\* a union that appends the new elements of ys instead of merging by address
merge_parameters_append(xs, ys) ==
    xs \o SelectSeq(ys, LAMBDA y : \A i \in 1..Len(xs) : xs[i] # y)

\* merge_parameters: itertools' merge_join_by over the two lists, keeping the
\* left element of a Both
RECURSIVE merge_parameters(_, _)
merge_parameters(xs, ys) ==
    IF xs = <<>> THEN ys
    ELSE IF ys = <<>> THEN xs
    ELSE IF as_ptr(Head(xs)) < as_ptr(Head(ys))
         THEN <<Head(xs)>> \o merge_parameters(Tail(xs), ys)
    ELSE IF as_ptr(Head(xs)) = as_ptr(Head(ys))
         THEN <<Head(xs)>> \o merge_parameters(Tail(xs), Tail(ys))
    ELSE <<Head(ys)>> \o merge_parameters(xs, Tail(ys))

(***************************************************************************)
(* GradientAccumulator.                                                    *)
(***************************************************************************)
\* GradientAccumulator::dense_gradient: get_or_insert(zeros(dense_shape))
dense_gradient(acc) ==
    IF acc.dense_gradient = <<>>
    THEN [acc EXCEPT !.dense_gradient = <<Zeros(acc.dense_shape[1], acc.dense_shape[2])>>]
    ELSE acc

\* a zero_gradient that resets the dense buffer and the flags only
GradientAccumulator_zero_gradient_dense_only(acc) ==
    LET a1 == IF acc.has_dense
              THEN [dense_gradient(acc) EXCEPT !.dense_gradient =
                        <<Zeros(acc.dense_shape[1], acc.dense_shape[2])>>]
              ELSE acc
    IN  [a1 EXCEPT !.has_dense = FALSE, !.has_sparse = FALSE]

\* GradientAccumulator::zero_gradient
GradientAccumulator_zero_gradient(acc) ==
    LET a1 == IF acc.has_dense
              THEN [dense_gradient(acc) EXCEPT !.dense_gradient =
                        <<Zeros(acc.dense_shape[1], acc.dense_shape[2])>>]
              ELSE acc
        a2 == IF acc.has_sparse
              THEN [a1 EXCEPT !.sparse_gradient =
                        [k \in 1..Len(acc.sparse_gradient) |->
                            [index_vec |-> <<>>,
                             grad |-> Scale(acc.sparse_gradient[k].grad, 0)]]]
              ELSE a1
    IN  [a2 EXCEPT !.has_dense = FALSE, !.has_sparse = FALSE]

\* GradientSink<&Ref<Arr>>::accumulate_gradient panics iff the gradient does
\* not broadcast to the dense shape
accumulate_dense_ok(acc, gradient) ==
    Broadcastable(gradient, acc.dense_shape[1], acc.dense_shape[2])

\* a dense accumulation that overwrites the buffer
accumulate_dense_assign(acc, gradient) ==
    LET a1 == dense_gradient(acc)
    IN  [a1 EXCEPT !.dense_gradient = <<Assign(a1.dense_gradient[1], gradient)>>,
                   !.has_dense = TRUE]

\* GradientSink<&Ref<Arr>>::accumulate_gradient
accumulate_dense(acc, gradient) ==
    LET a1 == dense_gradient(acc)
    IN  [a1 EXCEPT !.dense_gradient = <<ArrAdd(a1.dense_gradient[1], gradient)>>,
                   !.has_dense = TRUE]

\* position of the first slot with an empty index list, 0 if none
FirstEmptySlot(slots) ==
    IF \E k \in 1..Len(slots) : slots[k].index_vec = <<>>
    THEN CHOOSE k \in 1..Len(slots) :
            /\ slots[k].index_vec = <<>>
            /\ \A m \in 1..(k - 1) : slots[m].index_vec # <<>>
    ELSE 0

\* GradientSink<(&[usize], &Arr)>::accumulate_gradient panics iff a reused
\* slot's row block cannot take the value by broadcast (grad.assign(value))
accumulate_sparse_ok(acc, index, value) ==
    LET k == FirstEmptySlot(acc.sparse_gradient)
    IN  k # 0 => Broadcastable(value, acc.sparse_gradient[k].grad.rows,
                               acc.sparse_gradient[k].grad.cols)

\* a sparse accumulation that reuses slot 1 whether or not it is empty
accumulate_sparse_first(acc, index, value) ==
    IF Len(acc.sparse_gradient) >= 1
    THEN [acc EXCEPT !.has_sparse = TRUE,
                     !.sparse_gradient[1] =
                        [index_vec |-> index,
                         grad |-> Assign(acc.sparse_gradient[1].grad, value)]]
    ELSE [acc EXCEPT !.has_sparse = TRUE,
                     !.sparse_gradient =
                        Append(@, [index_vec |-> index, grad |-> value])]

\* a sparse accumulation that never reuses a slot
accumulate_sparse_push(acc, index, value) ==
    [acc EXCEPT !.has_sparse = TRUE,
                !.sparse_gradient = Append(@, [index_vec |-> index, grad |-> value])]

\* GradientSink<(&[usize], &Arr)>::accumulate_gradient
accumulate_sparse(acc, index, value) ==
    LET k == FirstEmptySlot(acc.sparse_gradient)
    IN  IF k # 0
        THEN [acc EXCEPT !.has_sparse = TRUE,
                         !.sparse_gradient[k] =
                            [index_vec |-> index,
                             grad |-> Assign(acc.sparse_gradient[k].grad, value)]]
        ELSE [acc EXCEPT !.has_sparse = TRUE,
                         !.sparse_gradient =
                            Append(@, [index_vec |-> index, grad |-> value])]

Min(a, b) == IF a < b THEN a ELSE b

\* what positions p..1 of one sparse slot add to element (r, j)
RECURSIVE SlotSum(_, _, _, _)
SlotSum(slot, r, j, p) ==
    IF p = 0 THEN 0
    ELSE (IF slot.index_vec[p] = r THEN slot.grad.data[p][j] ELSE 0)
         + SlotSum(slot, r, j, p - 1)

\* what slots k..1 add to element (r, j)
RECURSIVE SparseSum(_, _, _, _)
SparseSum(slots, r, j, k) ==
    IF k = 0 THEN 0
    ELSE SlotSum(slots[k], r, j, Min(Len(slots[k].index_vec), slots[k].grad.rows))
         + SparseSum(slots, r, j, k - 1)

\* a materialization that reads the dense buffer only
materialized_gradient_dense(acc) ==
    [rows |-> acc.dense_shape[1], cols |-> acc.dense_shape[2],
     data |-> [r \in 1..acc.dense_shape[1] |-> [j \in 1..acc.dense_shape[2] |->
                IF acc.dense_gradient = <<>> THEN 0
                ELSE acc.dense_gradient[1].data[r][j]]]]

\* GradientAccumulator::materialized_gradient: the dense buffer plus every
\* sparse slot scattered onto its rows, on a zero array of the dense shape
materialized_gradient(acc) ==
    [rows |-> acc.dense_shape[1], cols |-> acc.dense_shape[2],
     data |-> [r \in 1..acc.dense_shape[1] |-> [j \in 1..acc.dense_shape[2] |->
                (IF acc.dense_gradient = <<>> THEN 0
                 ELSE acc.dense_gradient[1].data[r][j])
                + SparseSum(acc.sparse_gradient, r, j, Len(acc.sparse_gradient))]]]

\* Variable<ParameterNode>::gradient of parameter node p
gradient(p) == materialized_gradient(nodes[p].gradient)

(***************************************************************************)
(* Node constructors.  X_new_ok is the condition under which X::new does   *)
(* not panic.  A unary node keeps its operand in `lhs` and its             *)
(* operand_gradient in `lhs_gradient`; an IndexNode keeps its operand in   *)
(* `lhs` and its index leaf in `rhs`.                                      *)
(***************************************************************************)
\* `&a + &b` and friends panic iff b does not broadcast to a's shape
BinaryArith_ok(ns, l, r) ==
    Broadcastable(Value(ns, r), Value(ns, l).rows, Value(ns, l).cols)

\* an AddNode that needs a gradient only if both operands do
AddNode_new_and(ns, l, r) ==
    [BlankNode EXCEPT
        !.kind = "Add", !.lhs = l, !.rhs = r,
        !.needs_gradient = ns[l].needs_gradient /\ ns[r].needs_gradient,
        !.value = ArrAdd(Value(ns, l), Value(ns, r))]

\* AddNode::new
AddNode_new(ns, l, r) ==
    [BlankNode EXCEPT
        !.kind = "Add", !.lhs = l, !.rhs = r,
        !.needs_gradient = ns[l].needs_gradient \/ ns[r].needs_gradient,
        !.value = ArrAdd(Value(ns, l), Value(ns, r))]

\* SubNode::new
SubNode_new(ns, l, r) ==
    [BlankNode EXCEPT
        !.kind = "Sub", !.lhs = l, !.rhs = r,
        !.needs_gradient = ns[l].needs_gradient \/ ns[r].needs_gradient,
        !.value = ArrAdd(Value(ns, l), Value(ns, r)),
        !.rhs_gradient = Scale(Value(ns, r), 0)]

\* MulNode::new
MulNode_new(ns, l, r) ==
    LET value == ArrMul(Value(ns, l), Value(ns, r))
    IN  [BlankNode EXCEPT
            !.kind = "Mul", !.lhs = l, !.rhs = r,
            !.needs_gradient = ns[l].needs_gradient \/ ns[r].needs_gradient,
            !.value = value,
            !.lhs_gradient = Scale(value, 0),
            !.rhs_gradient = Scale(value, 0)]

\* numerics::simd_dot: the sum of the products of the paired elements
RECURSIVE simd_dot(_, _, _)
simd_dot(xs, ys, k) ==
    IF k = 0 THEN 0 ELSE xs[k] * ys[k] + simd_dot(xs, ys, k - 1)

\* the izip! of VectorDotNode::new and ::forward: one simd_dot per pair of rows
RowDots(lhs_value, rhs_value, rows) ==
    [rows |-> rows, cols |-> 1,
     data |-> [i \in 1..rows |->
        <<simd_dot(lhs_value.data[i], rhs_value.data[i],
                   Min(lhs_value.cols, rhs_value.cols))>>]]

\* a VectorDotNode::new that asserts equal row counts only
VectorDotNode_new_ok_rows(ns, l, r) == Value(ns, l).rows = Value(ns, r).rows

\* VectorDotNode::new panics iff the assert_eq! on the shapes fails
VectorDotNode_new_ok(ns, l, r) == Shape(Value(ns, l)) = Shape(Value(ns, r))

\* VectorDotNode::new
VectorDotNode_new(ns, l, r) ==
    [BlankNode EXCEPT
        !.kind = "VectorDot", !.lhs = l, !.rhs = r,
        !.needs_gradient = ns[l].needs_gradient \/ ns[r].needs_gradient,
        !.value = RowDots(Value(ns, l), Value(ns, r), Value(ns, l).rows),
        !.lhs_gradient = Scale(Value(ns, l), 0),
        !.rhs_gradient = Scale(Value(ns, r), 0)]

\* ArrayBase::t: the transposed view
Transpose(a) ==
    [rows |-> a.cols, cols |-> a.rows,
     data |-> [i \in 1..a.cols |-> [j \in 1..a.rows |-> a.data[j][i]]]]

\* general_mat_mul panics unless a is [m, k], b is [k, n] and c is [m, n]
general_mat_mul_ok(a, b, c) ==
    a.cols = b.rows /\ c.rows = a.rows /\ c.cols = b.cols

\* general_mat_mul(1.0, a, b, 0.0, c) and ArrayBase::dot: what c holds
\* afterwards, element (i, j) the sum over k of a[i][k] * b[k][j]
general_mat_mul(a, b) ==
    [rows |-> a.rows, cols |-> b.cols,
     data |-> [i \in 1..a.rows |-> [j \in 1..b.cols |->
        LET sum[k \in 0..a.cols] ==
                IF k = 0 THEN 0 ELSE sum[k - 1] + a.data[i][k] * b.data[k][j]
        IN  sum[a.cols]]]]

\* DotNode::new panics iff lhs.value().dot(rhs.value()) does
DotNode_new_ok(ns, l, r) == Value(ns, l).cols = Value(ns, r).rows

\* DotNode::new
DotNode_new(ns, l, r) ==
    [BlankNode EXCEPT
        !.kind = "Dot", !.lhs = l, !.rhs = r,
        !.needs_gradient = ns[l].needs_gradient \/ ns[r].needs_gradient,
        !.value = general_mat_mul(Value(ns, l), Value(ns, r)),
        !.lhs_gradient = Scale(Value(ns, l), 0),
        !.rhs_gradient = Scale(Value(ns, r), 0)]

\* 1.0 in the fixed-point numbers a softmax value is kept in
Fixed == 10000

\* f32::exp of 0, -1, -2, -3 and -4, in fixed point
ExpTable == <<10000, 3679, 1353, 498, 183>>

\* iter().fold(std::f32::MIN, |x, y| x.max(*y)): the largest element
ArrMax(a) ==
    CHOOSE m \in {a.data[i][j] : i \in 1..a.rows, j \in 1..a.cols} :
        \A i \in 1..a.rows, j \in 1..a.cols : a.data[i][j] <= m

\* map(|x| (x - max).exp())
ExpShifted(a, max) ==
    [a EXCEPT !.data =
        [i \in 1..a.rows |-> [j \in 1..a.cols |-> ExpTable[max - a.data[i][j] + 1]]]]

\* the elements of a are whole numbers at most Len(ExpTable) - 1 apart
InExpTable(a) ==
    /\ a.rows > 0 /\ a.cols > 0
    /\ \A i \in 1..a.rows, j \in 1..a.cols : ArrMax(a) - a.data[i][j] < Len(ExpTable)

\* scalar_sum over the whole array
WholeSum(a) ==
    LET sum[k \in 0..(a.rows * a.cols)] ==
            IF k = 0 THEN 0
            ELSE sum[k - 1] + a.data[((k - 1) \div a.cols) + 1][((k - 1) % a.cols) + 1]
    IN  sum[a.rows * a.cols]

\* numerator / denominator, the denominator one number for the whole array
DivideBySum(numerator) ==
    LET denominator == WholeSum(numerator)
    IN  [numerator EXCEPT !.data =
            [i \in 1..numerator.rows |-> [j \in 1..numerator.cols |->
                (numerator.data[i][j] * Fixed) \div denominator]]]

\* SoftmaxNode::new
SoftmaxNode_new(ns, operand) ==
    LET value == DivideBySum(ExpShifted(Value(ns, operand), ArrMax(Value(ns, operand))))
    IN  [BlankNode EXCEPT
            !.kind = "Softmax", !.lhs = operand,
            !.needs_gradient = ns[operand].needs_gradient,
            !.value = value,
            !.lhs_gradient = Scale(value, 0)]

\* a NegNode that is its own operand
NegNode_new_self(ns, operand) ==
    [BlankNode EXCEPT
        !.kind = "Neg", !.lhs = Len(ns) + 1,
        !.needs_gradient = ns[operand].needs_gradient,
        !.value = Scale(Value(ns, operand), -1),
        !.lhs_gradient = Scale(Value(ns, operand), 0)]

\* NegNode::new
NegNode_new(ns, operand) ==
    LET value == Scale(Value(ns, operand), -1)
    IN  [BlankNode EXCEPT
            !.kind = "Neg", !.lhs = operand,
            !.needs_gradient = ns[operand].needs_gradient,
            !.value = value,
            !.lhs_gradient = Scale(value, 0)]

\* IndexNode::new panics iff select meets an index out of range
IndexNode_new_ok(ns, operand, index) ==
    InRange(Value(ns, operand), ns[index].ivalue)

\* IndexNode::new
IndexNode_new(ns, operand, index) ==
    LET value == Select(Value(ns, operand), ns[index].ivalue)
    IN  [BlankNode EXCEPT
            !.kind = "Index", !.lhs = operand, !.rhs = index,
            !.needs_gradient = ns[operand].needs_gradient,
            !.value = value,
            !.lhs_gradient = Scale(value, 0),
            !.index_value = ns[index].ivalue]

\* $node::new of the impl_arithmetic_op! instances
BinaryNode_new(ns, op, l, r) ==
    CASE op = "Add" -> AddNode_new(ns, l, r)
      [] op = "Sub" -> SubNode_new(ns, l, r)
      [] op = "Mul" -> MulNode_new(ns, l, r)

(***************************************************************************)
(* Forward.  A pass threads st = [ns, ab, calls]: the arena, whether a     *)
(* panic has happened, and the calls made so far, in order of entry.       *)
(***************************************************************************)
\* the shape a binary node's forward asserts or assigns into
SameShape(a, b) == Shape(a) = Shape(b)

\* AddNode::forward after its operands: the two debug_assert_eq! on shapes
AddNode_forward_ok(ns, n) ==
    /\ SameShape(Value(ns, ns[n].lhs), ns[n].value)
    /\ SameShape(Value(ns, ns[n].rhs), ns[n].value)

\* AddNode::forward after its operands: map_assign_binary(.., |x, y| x + y)
AddNode_forward(ns, n) ==
    [ns[n] EXCEPT !.value = ArrAdd(Value(ns, ns[n].lhs), Value(ns, ns[n].rhs))]

\* SubNode::forward, MulNode::forward after their operands: assign(lhs) and
\* sub_assign(rhs) / mul_assign(rhs) each need a broadcast into dest
AssignBinary_ok(ns, n) ==
    /\ Broadcastable(Value(ns, ns[n].lhs), ns[n].value.rows, ns[n].value.cols)
    /\ Broadcastable(Value(ns, ns[n].rhs), ns[n].value.rows, ns[n].value.cols)

\* SubNode::forward after its operands
SubNode_forward(ns, n) ==
    [ns[n] EXCEPT !.value =
        ArrSub(Assign(ns[n].value, Value(ns, ns[n].lhs)), Value(ns, ns[n].rhs))]

\* MulNode::forward after its operands
MulNode_forward(ns, n) ==
    [ns[n] EXCEPT !.value =
        ArrMul(Assign(ns[n].value, Value(ns, ns[n].lhs)), Value(ns, ns[n].rhs))]

\* NegNode::forward after its operand: dest.assign(operand) needs a broadcast
NegNode_forward_ok(ns, n) ==
    Broadcastable(Value(ns, ns[n].lhs), ns[n].value.rows, ns[n].value.cols)

\* NegNode::forward after its operand
NegNode_forward(ns, n) ==
    [ns[n] EXCEPT !.value = Scale(Assign(ns[n].value, Value(ns, ns[n].lhs)), -1)]

\* an IndexNode::forward that checks the indices' range only
IndexNode_forward_ok_range(ns, n) ==
    InRange(Value(ns, ns[n].lhs), ns[ns[n].rhs].ivalue)

\* IndexNode::forward: the debug_assert_eq! on the row count, then subview
\* of every index
IndexNode_forward_ok(ns, n) ==
    /\ ns[n].value.rows = Len(ns[ns[n].rhs].ivalue)
    /\ InRange(Value(ns, ns[n].lhs), ns[ns[n].rhs].ivalue)

\* IndexNode::forward: snapshot the index list, then copy the rows
IndexNode_forward(ns, n) ==
    [ns[n] EXCEPT
        !.index_value = ns[ns[n].rhs].ivalue,
        !.value = Select(Value(ns, ns[n].lhs), ns[ns[n].rhs].ivalue)]

\* VectorDotNode::forward after its operands: the izip! stops at the
\* shortest of the value's elements and the operands' rows
VectorDotNode_forward(ns, n) ==
    LET l == Value(ns, ns[n].lhs)
        r == Value(ns, ns[n].rhs)
        fresh == RowDots(l, r, Min(ns[n].value.rows, Min(l.rows, r.rows)))
    IN  [ns[n] EXCEPT !.value.data =
            [i \in 1..ns[n].value.rows |->
                IF i <= fresh.rows THEN fresh.data[i] ELSE ns[n].value.data[i]]]

\* DotNode::forward after its operands
DotNode_forward_ok(ns, n) ==
    general_mat_mul_ok(Value(ns, ns[n].lhs), Value(ns, ns[n].rhs), ns[n].value)

DotNode_forward(ns, n) ==
    [ns[n] EXCEPT !.value = general_mat_mul(Value(ns, ns[n].lhs), Value(ns, ns[n].rhs))]

\* SoftmaxNode::forward after its operand: dest.assign needs a broadcast
SoftmaxNode_forward_ok(ns, n) ==
    Broadcastable(Value(ns, ns[n].lhs), ns[n].value.rows, ns[n].value.cols)

\* SoftmaxNode::forward: assign, the maximum of the operand, exp in place,
\* scalar_sum of dest, division in place
SoftmaxNode_forward(ns, n) ==
    [ns[n] EXCEPT !.value =
        DivideBySum(ExpShifted(Assign(ns[n].value, Value(ns, ns[n].lhs)),
                               ArrMax(Value(ns, ns[n].lhs))))]

Recompute_ok(ns, n) ==
    CASE ns[n].kind = "Add" -> AddNode_forward_ok(ns, n)
      [] ns[n].kind = "VectorDot" -> TRUE
      [] ns[n].kind = "Dot" -> DotNode_forward_ok(ns, n)
      [] ns[n].kind = "Softmax" -> SoftmaxNode_forward_ok(ns, n)
      [] ns[n].kind \in {"Sub", "Mul"} -> AssignBinary_ok(ns, n)
      [] ns[n].kind = "Neg" -> NegNode_forward_ok(ns, n)
      [] ns[n].kind = "Index" -> IndexNode_forward_ok(ns, n)

Recompute(ns, n) ==
    CASE ns[n].kind = "Add" -> AddNode_forward(ns, n)
      [] ns[n].kind = "Sub" -> SubNode_forward(ns, n)
      [] ns[n].kind = "Mul" -> MulNode_forward(ns, n)
      [] ns[n].kind = "VectorDot" -> VectorDotNode_forward(ns, n)
      [] ns[n].kind = "Dot" -> DotNode_forward(ns, n)
      [] ns[n].kind = "Softmax" -> SoftmaxNode_forward(ns, n)
      [] ns[n].kind = "Neg" -> NegNode_forward(ns, n)
      [] ns[n].kind = "Index" -> IndexNode_forward(ns, n)

Finish(st, n) ==
    IF st.ab THEN st
    ELSE IF ~Recompute_ok(st.ns, n) THEN [st EXCEPT !.ab = TRUE]
    ELSE [st EXCEPT !.ns[n] = Recompute(st.ns, n)]

\* a forward that recomputes node n without forwarding its operands
Node_forward_shallow(st, n) ==
    IF st.ab THEN st
    ELSE
    LET nd == st.ns[n]
        s0 == [st EXCEPT !.calls = Append(@, [node |-> n, gradient |-> NoArr])]
    IN  IF nd.kind \in LeafKinds THEN s0 ELSE Finish(s0, n)

\* a Node::forward that skips a node the pass has already visited
RECURSIVE Node_forward_memo(_, _)
Node_forward_memo(st, n) ==
    IF st.ab \/ \E i \in 1..Len(st.calls) : st.calls[i].node = n THEN st
    ELSE
    LET nd == st.ns[n]
        s0 == [st EXCEPT !.calls = Append(@, [node |-> n, gradient |-> NoArr])]
    IN  CASE nd.kind \in LeafKinds -> s0
          [] nd.kind \in BinaryKinds \cup {"VectorDot", "Dot"} ->
                Finish(Node_forward_memo(Node_forward_memo(s0, nd.lhs), nd.rhs), n)
          [] nd.kind \in UnaryKinds \cup {"Softmax"} ->
                Finish(Node_forward_memo(s0, nd.lhs), n)
          [] nd.kind = "Index" -> Finish(s0, n)

\* Node::forward of node n: operands first (lhs, then rhs), then this node;
\* leaves do nothing, and an IndexNode calls neither operand
RECURSIVE Node_forward(_, _)
Node_forward(st, n) ==
    IF st.ab THEN st
    ELSE
    LET nd == st.ns[n]
        s0 == [st EXCEPT !.calls = Append(@, [node |-> n, gradient |-> NoArr])]
    IN  CASE nd.kind \in LeafKinds -> s0
          [] nd.kind \in BinaryKinds \cup {"VectorDot", "Dot"} ->
                Finish(Node_forward(Node_forward(s0, nd.lhs), nd.rhs), n)
          [] nd.kind \in UnaryKinds \cup {"Softmax"} -> Finish(Node_forward(s0, nd.lhs), n)
          [] nd.kind = "Index" -> Finish(s0, n)

(***************************************************************************)
(* Backward.                                                               *)
(***************************************************************************)
\* SubNode::backward: rhs_gradient.assign(gradient) needs a broadcast
SubNode_backward_ok(ns, n, g) ==
    Broadcastable(g, ns[n].rhs_gradient.rows, ns[n].rhs_gradient.cols)

\* a SubNode::backward that does not negate
SubNode_backward_plain(ns, n, g) ==
    [ns[n] EXCEPT !.rhs_gradient = Assign(ns[n].rhs_gradient, g)]

\* SubNode::backward: rhs_gradient = -gradient
SubNode_backward(ns, n, g) ==
    [ns[n] EXCEPT !.rhs_gradient = Scale(Assign(ns[n].rhs_gradient, g), -1)]

\* MulNode::backward: two assign and two mul_assign, each needs a broadcast
MulNode_backward_ok(ns, n, g) ==
    /\ Broadcastable(Value(ns, ns[n].rhs), ns[n].lhs_gradient.rows, ns[n].lhs_gradient.cols)
    /\ Broadcastable(Value(ns, ns[n].lhs), ns[n].rhs_gradient.rows, ns[n].rhs_gradient.cols)
    /\ Broadcastable(g, ns[n].lhs_gradient.rows, ns[n].lhs_gradient.cols)

\* MulNode::backward: lhs_gradient = rhs * gradient, rhs_gradient = lhs * gradient
MulNode_backward(ns, n, g) ==
    [ns[n] EXCEPT
        !.lhs_gradient = ArrMul(Assign(ns[n].lhs_gradient, Value(ns, ns[n].rhs)), g),
        !.rhs_gradient = ArrMul(Assign(ns[n].rhs_gradient, Value(ns, ns[n].lhs)), g)]

\* NegNode::backward: izip over the two element iterators, *dest = -grad_val
NegNode_backward(ns, n, g) ==
    LET og == ns[n].lhs_gradient
    IN  [ns[n] EXCEPT !.lhs_gradient.data =
            [i \in 1..og.rows |-> [j \in 1..og.cols |->
                LET k == (i - 1) * og.cols + j
                IN  IF k <= FlatLen(g) THEN 0 - FlatAt(g, k) ELSE og.data[i][j]]]]

\* numerics::simd_scaled_assign over the rows the izip! reaches: row i of
\* dest becomes row i of src times element i of the gradient's slice
ScaledRows(dest, src, g) ==
    [dest EXCEPT !.data =
        [i \in 1..dest.rows |-> [j \in 1..dest.cols |->
            IF i <= Min(src.rows, FlatLen(g)) /\ j <= src.cols
            THEN src.data[i][j] * FlatAt(g, i)
            ELSE dest.data[i][j]]]]

\* VectorDotNode::backward: lhs_gradient = rhs rows * gradient,
\* rhs_gradient = lhs rows * gradient
VectorDotNode_backward(ns, n, g) ==
    [ns[n] EXCEPT
        !.lhs_gradient = ScaledRows(ns[n].lhs_gradient, Value(ns, ns[n].rhs), g),
        !.rhs_gradient = ScaledRows(ns[n].rhs_gradient, Value(ns, ns[n].lhs), g)]

\* DotNode::backward: both general_mat_mul calls need matching shapes
DotNode_backward_ok(ns, n, g) ==
    /\ general_mat_mul_ok(g, Transpose(Value(ns, ns[n].rhs)), ns[n].lhs_gradient)
    /\ general_mat_mul_ok(Transpose(Value(ns, ns[n].lhs)), g, ns[n].rhs_gradient)

\* a DotNode::backward with beta = 1.0: the products are added to the buffers
DotNode_backward_adding(ns, n, g) ==
    [ns[n] EXCEPT
        !.lhs_gradient = ArrAdd(@, general_mat_mul(g, Transpose(Value(ns, ns[n].rhs)))),
        !.rhs_gradient = ArrAdd(@, general_mat_mul(Transpose(Value(ns, ns[n].lhs)), g))]

\* DotNode::backward: lhs_gradient = gradient . rhs^T,
\* rhs_gradient = lhs^T . gradient, with beta = 0.0
DotNode_backward(ns, n, g) ==
    [ns[n] EXCEPT
        !.lhs_gradient = general_mat_mul(g, Transpose(Value(ns, ns[n].rhs))),
        !.rhs_gradient = general_mat_mul(Transpose(Value(ns, ns[n].lhs)), g)]

\* the Jacobian of SoftmaxNode::backward from the values vs: entry (r, c) is
\* vs[r] * (1.0 - vs[c]) on the diagonal and -vs[r] * vs[c] off it
Jacobian(vs) ==
    [rows |-> Len(vs), cols |-> Len(vs),
     data |-> [r \in 1..Len(vs) |-> [c \in 1..Len(vs) |->
        IF r = c THEN (vs[r] * (Fixed - vs[c])) \div Fixed
        ELSE 0 - ((vs[r] * vs[c]) \div Fixed)]]]

\* SoftmaxNode::backward: genrows_mut().zip(value.iter()) and
\* row.iter_mut().zip(value.iter()) pair row r and column c of the jacobian
\* with elements r and c of the value in row-major order
SoftmaxNode_jacobian(value) ==
    Jacobian([k \in 1..value.cols |-> FlatAt(value, k)])

SoftmaxNode_backward_ok(ns, n, g) ==
    general_mat_mul_ok(g, SoftmaxNode_jacobian(ns[n].value), ns[n].lhs_gradient)

\* SoftmaxNode::backward: operand_gradient = gradient . jacobian
SoftmaxNode_backward(ns, n, g) ==
    [ns[n] EXCEPT !.lhs_gradient = general_mat_mul(g, SoftmaxNode_jacobian(ns[n].value))]

\* ParameterNode::backward
ParameterNode_backward(ns, n, g) ==
    [ns[n] EXCEPT !.gradient = accumulate_dense(ns[n].gradient, g)]

\* an IndexNode::backward that sends the index leaf's current list
IndexNode_backward_live(ns, n, g) ==
    [ns[ns[n].lhs] EXCEPT !.gradient =
        accumulate_sparse(ns[ns[n].lhs].gradient, ns[ns[n].rhs].ivalue, g)]

\* an IndexNode::backward that also touches the dense buffer
IndexNode_backward_dense(ns, n, g) ==
    [ns[ns[n].lhs] EXCEPT !.gradient =
        dense_gradient(accumulate_sparse(ns[ns[n].lhs].gradient, ns[n].index_value, g))]

\* IndexNode::backward: the snapshot list and the upstream rows go to the
\* operand's accumulator
IndexNode_backward(ns, n, g) ==
    [ns[ns[n].lhs] EXCEPT !.gradient =
        accumulate_sparse(ns[ns[n].lhs].gradient, ns[n].index_value, g)]

\* Node::backward of node n with upstream gradient g
RECURSIVE Node_backward(_, _, _)
Node_backward(st, n, g) ==
    IF st.ab THEN st
    ELSE
    LET nd == st.ns[n]
        s0 == [st EXCEPT !.calls = Append(@, [node |-> n, gradient |-> g])]
    IN  CASE nd.kind = "Parameter" ->
                IF accumulate_dense_ok(nd.gradient, g)
                THEN [s0 EXCEPT !.ns[n] = ParameterNode_backward(s0.ns, n, g)]
                ELSE [s0 EXCEPT !.ab = TRUE]
          [] nd.kind \in {"Input", "IndexInput"} -> s0
          [] nd.kind = "Add" ->
                Node_backward(Node_backward(s0, nd.lhs, g), nd.rhs, g)
          [] nd.kind = "Sub" ->
                IF SubNode_backward_ok(s0.ns, n, g)
                THEN LET s1 == [s0 EXCEPT !.ns[n] = SubNode_backward(s0.ns, n, g)]
                     IN  Node_backward(Node_backward(s1, nd.lhs, g),
                                       nd.rhs, s1.ns[n].rhs_gradient)
                ELSE [s0 EXCEPT !.ab = TRUE]
          [] nd.kind = "Mul" ->
                IF MulNode_backward_ok(s0.ns, n, g)
                THEN LET s1 == [s0 EXCEPT !.ns[n] = MulNode_backward(s0.ns, n, g)]
                     IN  Node_backward(Node_backward(s1, nd.lhs, s1.ns[n].lhs_gradient),
                                       nd.rhs, s1.ns[n].rhs_gradient)
                ELSE [s0 EXCEPT !.ab = TRUE]
          [] nd.kind = "VectorDot" ->
                LET s1 == [s0 EXCEPT !.ns[n] = VectorDotNode_backward(s0.ns, n, g)]
                IN  Node_backward(Node_backward(s1, nd.lhs, s1.ns[n].lhs_gradient),
                                  nd.rhs, s1.ns[n].rhs_gradient)
          [] nd.kind = "Dot" ->
                IF DotNode_backward_ok(s0.ns, n, g)
                THEN LET s1 == [s0 EXCEPT !.ns[n] = DotNode_backward(s0.ns, n, g)]
                     IN  Node_backward(Node_backward(s1, nd.lhs, s1.ns[n].lhs_gradient),
                                       nd.rhs, s1.ns[n].rhs_gradient)
                ELSE [s0 EXCEPT !.ab = TRUE]
          [] nd.kind = "Softmax" ->
                IF SoftmaxNode_backward_ok(s0.ns, n, g)
                THEN LET s1 == [s0 EXCEPT !.ns[n] = SoftmaxNode_backward(s0.ns, n, g)]
                     IN  Node_backward(s1, nd.lhs, s1.ns[n].lhs_gradient)
                ELSE [s0 EXCEPT !.ab = TRUE]
          [] nd.kind = "Neg" ->
                LET s1 == [s0 EXCEPT !.ns[n] = NegNode_backward(s0.ns, n, g)]
                IN  Node_backward(s1, nd.lhs, s1.ns[n].lhs_gradient)
          [] nd.kind = "Index" ->
                IF accumulate_sparse_ok(s0.ns[nd.lhs].gradient, nd.index_value, g)
                THEN [s0 EXCEPT !.ns[nd.lhs] = IndexNode_backward(s0.ns, n, g)]
                ELSE [s0 EXCEPT !.ab = TRUE]

(***************************************************************************)
(* Leaves.                                                                 *)
(***************************************************************************)
\* ParameterNode::new: a fresh backing store and a fresh accumulator
ParameterNode_new(value, addr, store) ==
    [BlankNode EXCEPT
        !.kind = "Parameter", !.needs_gradient = TRUE,
        !.addr = addr, !.store = store,
        !.gradient = GradientAccumulator_new(<<value.rows, value.cols>>)]

\* ParameterNode::shared: the given backing store and a fresh accumulator
ParameterNode_shared(sts, store, addr) ==
    [BlankNode EXCEPT
        !.kind = "Parameter", !.needs_gradient = TRUE,
        !.addr = addr, !.store = store,
        !.gradient = GradientAccumulator_new(<<sts[store].rows, sts[store].cols>>)]

\* InputNode::new
InputNode_new(value) == [BlankNode EXCEPT !.kind = "Input", !.value = value]

\* IndexInputNode::new
IndexInputNode_new(value) == [BlankNode EXCEPT !.kind = "IndexInput", !.ivalue = value]

\* the parameter list of the handle a leaf constructor returns: a parameter
\* reaches itself, the other leaves reach nothing
LeafParameters(ns, n) == IF ns[n].kind = "Parameter" THEN <<n>> ELSE <<>>

(***************************************************************************)
(* RefCell.  A borrow names the cell of a node it is of and whether it is  *)
(* a borrow_mut; borrow and borrow_mut panic when the cell has a live      *)
(* borrow_mut, and borrow_mut also when it has a live borrow.  The walks   *)
(* below follow the calls of a pass with the borrows that are live.        *)
(***************************************************************************)
Ref(n, cell) == [node |-> n, cell |-> cell, mut |-> FALSE]

RefMut(n, cell) == [node |-> n, cell |-> cell, mut |-> TRUE]

\* a Node::value that borrows the cached value mutably
Bor_value_mut(n) ==
    IF nodes[n].kind = "Parameter" THEN <<>> ELSE <<RefMut(n, "value")>>

\* Node::value: Bor::Reference for a parameter (no RefCell), else
\* Bor::RefGuard(self.value.borrow())
Bor_value(n) ==
    IF nodes[n].kind = "Parameter" THEN <<>> ELSE <<Ref(n, "value")>>

\* the borrows bs, taken in this order and all live, hit a BorrowError or
\* BorrowMutError
BorrowConflict(bs) ==
    \E i \in 1..Len(bs), j \in 1..Len(bs) :
        /\ i < j
        /\ bs[i].node = bs[j].node /\ bs[i].cell = bs[j].cell
        /\ bs[i].mut \/ bs[j].mut

\* Node::forward of node n entered with the borrows of held live: no borrow
\* of the walk panics
RECURSIVE Node_forward_borrows(_, _)
Node_forward_borrows(held, n) ==
    LET nd == nodes[n]
    IN  CASE nd.kind \in LeafKinds -> TRUE
          [] nd.kind = "Add" ->
                /\ Node_forward_borrows(held, nd.lhs)
                /\ Node_forward_borrows(held, nd.rhs)
                /\ ~BorrowConflict(held \o Bor_value(nd.lhs) \o Bor_value(nd.rhs)
                                        \o Bor_value(n))
                /\ ~BorrowConflict(held \o Bor_value(nd.lhs) \o Bor_value(nd.rhs)
                                        \o <<RefMut(n, "value")>>)
          [] nd.kind \in {"Sub", "Mul"} ->
                /\ Node_forward_borrows(held, nd.lhs)
                /\ Node_forward_borrows(held, nd.rhs)
                /\ ~BorrowConflict(held \o <<RefMut(n, "value")>> \o Bor_value(nd.lhs))
                /\ ~BorrowConflict(held \o <<RefMut(n, "value")>> \o Bor_value(nd.rhs))
          [] nd.kind \in {"VectorDot", "Dot"} ->
                /\ Node_forward_borrows(held, nd.lhs)
                /\ Node_forward_borrows(held, nd.rhs)
                /\ ~BorrowConflict(held \o Bor_value(nd.lhs) \o Bor_value(nd.rhs)
                                        \o <<RefMut(n, "value")>>)
          [] nd.kind \in {"Neg", "Softmax"} ->
                /\ Node_forward_borrows(held, nd.lhs)
                /\ ~BorrowConflict(held \o <<RefMut(n, "value")>> \o Bor_value(nd.lhs))
          [] nd.kind = "Index" ->
                ~BorrowConflict(held \o Bor_value(nd.lhs)
                                     \o <<RefMut(n, "index_value"), Ref(nd.rhs, "value"),
                                          RefMut(n, "value")>>)

\* Node::backward of node n entered with the borrows of held live
RECURSIVE Node_backward_borrows(_, _)
Node_backward_borrows(held, n) ==
    LET nd == nodes[n]
    IN  CASE nd.kind = "Parameter" -> ~BorrowConflict(held \o <<RefMut(n, "gradient")>>)
          [] nd.kind \in {"Input", "IndexInput"} -> TRUE
          [] nd.kind = "Add" ->
                /\ Node_backward_borrows(held, nd.lhs)
                /\ Node_backward_borrows(held, nd.rhs)
          [] nd.kind = "Sub" ->
                /\ ~BorrowConflict(held \o <<RefMut(n, "rhs_gradient")>>)
                /\ Node_backward_borrows(held, nd.lhs)
                /\ ~BorrowConflict(held \o <<Ref(n, "rhs_gradient")>>)
                /\ Node_backward_borrows(held \o <<Ref(n, "rhs_gradient")>>, nd.rhs)
          [] nd.kind = "Mul" ->
                /\ ~BorrowConflict(held \o <<RefMut(n, "lhs_gradient")>> \o Bor_value(nd.rhs))
                /\ ~BorrowConflict(held \o <<RefMut(n, "lhs_gradient"),
                                             RefMut(n, "rhs_gradient")>> \o Bor_value(nd.lhs))
                /\ ~BorrowConflict(held \o <<Ref(n, "lhs_gradient")>>)
                /\ Node_backward_borrows(held \o <<Ref(n, "lhs_gradient")>>, nd.lhs)
                /\ ~BorrowConflict(held \o <<Ref(n, "rhs_gradient")>>)
                /\ Node_backward_borrows(held \o <<Ref(n, "rhs_gradient")>>, nd.rhs)
          [] nd.kind = "VectorDot" ->
                /\ ~BorrowConflict(held \o <<RefMut(n, "lhs_gradient"),
                                             RefMut(n, "rhs_gradient")>>
                                        \o Bor_value(nd.lhs) \o Bor_value(nd.rhs))
                /\ ~BorrowConflict(held \o <<Ref(n, "lhs_gradient")>>)
                /\ Node_backward_borrows(held \o <<Ref(n, "lhs_gradient")>>, nd.lhs)
                /\ ~BorrowConflict(held \o <<Ref(n, "rhs_gradient")>>)
                /\ Node_backward_borrows(held \o <<Ref(n, "rhs_gradient")>>, nd.rhs)
          [] nd.kind = "Dot" ->
                /\ ~BorrowConflict(held \o Bor_value(nd.rhs) \o Bor_value(nd.lhs)
                                        \o <<RefMut(n, "lhs_gradient"),
                                             RefMut(n, "rhs_gradient")>>)
                /\ ~BorrowConflict(held \o <<Ref(n, "lhs_gradient")>>)
                /\ Node_backward_borrows(held \o <<Ref(n, "lhs_gradient")>>, nd.lhs)
                /\ ~BorrowConflict(held \o <<Ref(n, "rhs_gradient")>>)
                /\ Node_backward_borrows(held \o <<Ref(n, "rhs_gradient")>>, nd.rhs)
          [] nd.kind = "Neg" ->
                /\ ~BorrowConflict(held \o <<RefMut(n, "lhs_gradient")>>)
                /\ ~BorrowConflict(held \o <<Ref(n, "lhs_gradient")>>)
                /\ Node_backward_borrows(held \o <<Ref(n, "lhs_gradient")>>, nd.lhs)
          [] nd.kind = "Softmax" ->
                LET own == held \o <<Ref(n, "value"), RefMut(n, "jacobian")>>
                IN  /\ ~BorrowConflict(own \o <<RefMut(n, "lhs_gradient")>>)
                    /\ ~BorrowConflict(own \o <<Ref(n, "lhs_gradient")>>)
                    /\ Node_backward_borrows(own \o <<Ref(n, "lhs_gradient")>>, nd.lhs)
          [] nd.kind = "Index" ->
                ~BorrowConflict(held \o <<RefMut(nd.lhs, "gradient"),
                                          Ref(n, "index_value")>>)

\* Variable::forward holds no borrow of its own
Variable_forward_borrows(h) == Node_forward_borrows(<<>>, handles[h].node)

\* Variable::backward: val = self.node.value() lives to the end of the call,
\* self.grad is borrowed mutably to fill it and then immutably for the pass;
\* the grad cell belongs to the handle (node 0 here)
Variable_backward_borrows(h) ==
    /\ ~BorrowConflict(Bor_value(handles[h].node) \o <<RefMut(0, "grad")>>)
    /\ Node_backward_borrows(Bor_value(handles[h].node) \o <<Ref(0, "grad")>>,
                             handles[h].node)

\* Variable::zero_gradient: one gradient.borrow_mut() per parameter, each
\* released before the next
Variable_zero_gradient_borrows(h) ==
    \A i \in 1..Len(handles[h].parameters) :
        ~BorrowConflict(<<RefMut(handles[h].parameters[i], "gradient")>>)

\* DataInput::set_value: value.borrow_mut() on an input or index input
\* leaf, a raw pointer on a parameter
set_value_borrows(h) ==
    ~BorrowConflict(IF nodes[handles[h].node].kind = "Parameter" THEN <<>>
                    ELSE <<RefMut(handles[h].node, "value")>>)

(***************************************************************************)
(* The calls of the API, one action each.                                  *)
(***************************************************************************)
Last(op, h, w, seed, calls) ==
    [op |-> op, h |-> h, w |-> w, seed |-> seed, calls |-> calls]

Handles == 1..Len(handles)

ArrHandles == {h \in Handles : IsArrNode(nodes, handles[h].node)}

\* the handles made after the leaves: operator nodes and clones
Made ==
    Cardinality({h \in Handles :
        handles[h].cloned \/ nodes[handles[h].node].kind \notin LeafKinds})

KindHandles(kind) == {h \in Handles : nodes[handles[h].node].kind = kind}

Abort(op, h) ==
    /\ aborted' = TRUE
    /\ last' = Last(op, h, 0, NoArr, <<>>)
    /\ UNCHANGED <<nodes, handles, stores, steps, workers>>

\* impl_arithmetic_op!: Variable op Variable
Binary(op, h1, h2) ==
    /\ ~aborted
    /\ h1 \in ArrHandles /\ h2 \in ArrHandles
    /\ LET l == handles[h1].node
           r == handles[h2].node
       IN  IF BinaryArith_ok(nodes, l, r)
           THEN /\ nodes' = Append(nodes, BinaryNode_new(nodes, op, l, r))
                /\ handles' = Append(handles,
                      Variable_new(Len(nodes) + 1,
                          merge_parameters(handles[h1].parameters, handles[h2].parameters)))
                /\ last' = Last(op, Len(handles) + 1, 0, NoArr, <<>>)
                /\ UNCHANGED <<stores, aborted, steps, workers>>
           ELSE Abort(op, h1)

\* a constant leaf of shape [1, 1]
Constant_unit(v, c) == InputNode_new(Fill(1, 1, c))

\* impl_arithmetic_op!: InputNode::new(value * 0.0 + c)
Constant(v, c) == InputNode_new(ArrAdd(Scale(v, 0), Fill(1, 1, c)))

\* impl_arithmetic_op!: Variable op f32 (side = "rhs") and f32 op Variable
\* (side = "lhs"); the constant is an InputNode of the handle's value shape
Scalar(op, h, c, side) ==
    /\ ~aborted
    /\ h \in ArrHandles
    /\ LET v == Value(nodes, handles[h].node)
           constant == Constant(v, c)
           ns == Append(nodes, constant)
           k == Len(ns)
           l == IF side = "rhs" THEN handles[h].node ELSE k
           r == IF side = "rhs" THEN k ELSE handles[h].node
           ps == IF side = "rhs"
                 THEN merge_parameters(handles[h].parameters, LeafParameters(ns, k))
                 ELSE merge_parameters(LeafParameters(ns, k), handles[h].parameters)
       IN  /\ nodes' = Append(ns, BinaryNode_new(ns, op, l, r))
           /\ handles' = Append(handles, Variable_new(k + 1, ps))
           /\ last' = Last(op, Len(handles) + 1, c, NoArr, <<>>)
    /\ UNCHANGED <<stores, aborted, steps, workers>>

\* Variable::vector_dot
VectorDot(h1, h2) ==
    /\ ~aborted
    /\ h1 \in ArrHandles /\ h2 \in ArrHandles
    /\ LET l == handles[h1].node
           r == handles[h2].node
       IN  IF VectorDotNode_new_ok(nodes, l, r)
           THEN /\ nodes' = Append(nodes, VectorDotNode_new(nodes, l, r))
                /\ handles' = Append(handles,
                      Variable_new(Len(nodes) + 1,
                          merge_parameters(handles[h1].parameters, handles[h2].parameters)))
                /\ last' = Last("VectorDot", Len(handles) + 1, 0, NoArr, <<>>)
                /\ UNCHANGED <<stores, aborted, steps, workers>>
           ELSE Abort("VectorDot", h1)

\* Variable::dot
Dot(h1, h2) ==
    /\ ~aborted
    /\ h1 \in ArrHandles /\ h2 \in ArrHandles
    /\ LET l == handles[h1].node
           r == handles[h2].node
       IN  IF DotNode_new_ok(nodes, l, r)
           THEN /\ nodes' = Append(nodes, DotNode_new(nodes, l, r))
                /\ handles' = Append(handles,
                      Variable_new(Len(nodes) + 1,
                          merge_parameters(handles[h1].parameters, handles[h2].parameters)))
                /\ last' = Last("Dot", Len(handles) + 1, 0, NoArr, <<>>)
                /\ UNCHANGED <<stores, aborted, steps, workers>>
           ELSE Abort("Dot", h1)

\* Neg for Variable
Negate(h) ==
    /\ ~aborted
    /\ h \in ArrHandles
    /\ nodes' = Append(nodes, NegNode_new(nodes, handles[h].node))
    /\ handles' = Append(handles, Variable_new(Len(nodes) + 1, handles[h].parameters))
    /\ last' = Last("Neg", Len(handles) + 1, 0, NoArr, <<>>)
    /\ UNCHANGED <<stores, aborted, steps, workers>>

\* Variable::softmax
Softmax(h) ==
    /\ ~aborted
    /\ h \in ArrHandles
    /\ nodes' = Append(nodes, SoftmaxNode_new(nodes, handles[h].node))
    /\ handles' = Append(handles, Variable_new(Len(nodes) + 1, handles[h].parameters))
    /\ last' = Last("Softmax", Len(handles) + 1, 0, NoArr, <<>>)
    /\ UNCHANGED <<stores, aborted, steps, workers>>

\* Variable<ParameterNode>::index
Index(hp, hi) ==
    /\ ~aborted
    /\ hp \in KindHandles("Parameter") /\ hi \in KindHandles("IndexInput")
    /\ LET operand == handles[hp].node
           index == handles[hi].node
       IN  IF IndexNode_new_ok(nodes, operand, index)
           THEN /\ nodes' = Append(nodes, IndexNode_new(nodes, operand, index))
                /\ handles' = Append(handles,
                      Variable_new(Len(nodes) + 1,
                          merge_parameters(handles[hp].parameters, handles[hi].parameters)))
                /\ last' = Last("Index", Len(handles) + 1, 0, NoArr, <<>>)
                /\ UNCHANGED <<stores, aborted, steps, workers>>
           ELSE Abort("Index", hp)

\* Variable::clone
Clone(h) ==
    /\ ~aborted
    /\ h \in Handles
    /\ handles' = Append(handles,
          [node |-> handles[h].node, grad |-> <<>>,
           parameters |-> handles[h].parameters, cloned |-> TRUE])
    /\ last' = Last("clone", Len(handles) + 1, 0, NoArr, <<>>)
    /\ UNCHANGED <<nodes, stores, aborted, steps, workers>>

Step(op, h, w, seed, calls) ==
    /\ steps' = steps + 1
    /\ last' = Last(op, h, w, seed, calls)
    /\ UNCHANGED workers

StepAbort(op, h, w) ==
    /\ aborted' = TRUE
    /\ steps' = steps + 1
    /\ last' = Last(op, h, w, NoArr, <<>>)
    /\ UNCHANGED <<nodes, handles, stores, workers>>

\* a set_value that also resets the parameter's accumulator
SetValueParameter_zeroing(h, value) ==
    /\ ~aborted /\ steps < MaxSteps
    /\ h \in KindHandles("Parameter")
    /\ LET s == nodes[handles[h].node].store
       IN  IF Broadcastable(value, stores[s].rows, stores[s].cols)
           THEN /\ stores' = [stores EXCEPT ![s] = Assign(stores[s], value)]
                /\ Step("set_value", h, 0, NoArr, <<>>)
                /\ nodes' = [nodes EXCEPT ![handles[h].node].gradient =
                                    GradientAccumulator_zero_gradient(@)]
                /\ UNCHANGED <<handles, aborted>>
           ELSE StepAbort("set_value", h, 0)

\* DataInput<&Arr> for Variable<ParameterNode>
SetValueParameter(h, value) ==
    /\ ~aborted /\ steps < MaxSteps
    /\ h \in KindHandles("Parameter")
    /\ LET s == nodes[handles[h].node].store
       IN  IF Broadcastable(value, stores[s].rows, stores[s].cols)
           THEN /\ stores' = [stores EXCEPT ![s] = Assign(stores[s], value)]
                /\ Step("set_value", h, 0, NoArr, <<>>)
                /\ UNCHANGED <<nodes, handles, aborted>>
           ELSE StepAbort("set_value", h, 0)

\* DataInput<&Arr> for Variable<InputNode>
SetValueInput(h, value) ==
    /\ ~aborted /\ steps < MaxSteps
    /\ h \in KindHandles("Input")
    /\ LET n == handles[h].node
       IN  IF Broadcastable(value, nodes[n].value.rows, nodes[n].value.cols)
           THEN /\ nodes' = [nodes EXCEPT ![n].value = Assign(nodes[n].value, value)]
                /\ Step("set_value", h, 0, NoArr, <<>>)
                /\ UNCHANGED <<handles, stores, aborted>>
           ELSE StepAbort("set_value", h, 0)

\* DataInput<&[usize]> for Variable<IndexInputNode>
SetValueIndex(h, value) ==
    /\ ~aborted /\ steps < MaxSteps
    /\ h \in KindHandles("IndexInput")
    /\ nodes' = [nodes EXCEPT ![handles[h].node].ivalue = value]
    /\ Step("set_value", h, 0, NoArr, <<>>)
    /\ UNCHANGED <<handles, stores, aborted>>

\* Variable::forward
Forward(h) ==
    /\ ~aborted /\ steps < MaxSteps
    /\ h \in Handles
    /\ LET st == Node_forward([ns |-> nodes, ab |-> FALSE, calls |-> <<>>],
                              handles[h].node)
       IN  IF st.ab \/ ~Variable_forward_borrows(h)
           THEN StepAbort("forward", h, 0)
           ELSE /\ nodes' = st.ns
                /\ Step("forward", h, 0, NoArr, st.calls)
                /\ UNCHANGED <<handles, stores, aborted>>

\* Variable::clear: the nodes keep no record of having been computed and
\* forward recomputes unconditionally, so clear leaves every value as it is
Clear(h) ==
    /\ ~aborted /\ steps < MaxSteps
    /\ h \in Handles
    /\ Step("clear", h, 0, NoArr, <<>>)
    /\ UNCHANGED <<nodes, handles, stores, aborted>>

\* a seed buffer that is made on the first call and never refilled
Variable_backward_seed_stale(h, w) ==
    LET val == Value(nodes, handles[h].node)
    IN  IF handles[h].grad = <<>> THEN Fill(val.rows, val.cols, w)
        ELSE handles[h].grad[1]

\* Variable::backward: the seed buffer, made on the first call from the
\* node's value and refilled with the weight on every call
Variable_backward_seed(h, w) ==
    LET val == Value(nodes, handles[h].node)
        buf == IF handles[h].grad = <<>> THEN Fill(val.rows, val.cols, w)
               ELSE handles[h].grad[1]
    IN  Fill(buf.rows, buf.cols, w)

\* Variable::backward
Backward(h, w) ==
    /\ ~aborted /\ steps < MaxSteps
    /\ h \in ArrHandles
    /\ LET seed == Variable_backward_seed(h, w)
           st == Node_backward([ns |-> nodes, ab |-> FALSE, calls |-> <<>>],
                               handles[h].node, seed)
       IN  IF st.ab \/ ~Variable_backward_borrows(h)
           THEN StepAbort("backward", h, w)
           ELSE /\ nodes' = st.ns
                /\ handles' = [handles EXCEPT ![h].grad = <<seed>>]
                /\ Step("backward", h, w, seed, st.calls)
                /\ UNCHANGED <<stores, aborted>>

InList(p, list) == \E i \in 1..Len(list) : list[i] = p

\* the parameter nodes on the backing store of a parameter of the list
OnStoresOf(list) ==
    {n \in 1..Len(nodes) :
        /\ nodes[n].kind = "Parameter"
        /\ \E i \in 1..Len(list) : nodes[list[i]].store = nodes[n].store}

\* a zero_gradient that resets every accumulator on the stores of the list
ZeroGradient_stores(h) ==
    /\ ~aborted /\ steps < MaxSteps
    /\ h \in Handles
    /\ nodes' = [n \in 1..Len(nodes) |->
            IF n \in OnStoresOf(handles[h].parameters)
            THEN [nodes[n] EXCEPT !.gradient = GradientAccumulator_zero_gradient(@)]
            ELSE nodes[n]]
    /\ Step("zero_gradient", h, 0, NoArr, <<>>)
    /\ UNCHANGED <<handles, stores, aborted>>

\* Variable::zero_gradient
ZeroGradient(h) ==
    /\ ~aborted /\ steps < MaxSteps
    /\ h \in Handles
    /\ nodes' = [n \in 1..Len(nodes) |->
            IF InList(n, handles[h].parameters)
            THEN [nodes[n] EXCEPT !.gradient = GradientAccumulator_zero_gradient(@)]
            ELSE nodes[n]]
    /\ Step("zero_gradient", h, 0, NoArr, <<>>)
    /\ UNCHANGED <<handles, stores, aborted>>

(***************************************************************************)
(* The programs.  A program makes its leaves (the initial state), builds   *)
(* operator nodes on them and then runs the graph.                         *)
(***************************************************************************)
Addrs == {1, 2}
Rows2 == [rows |-> 2, cols |-> 1, data |-> <<<<1>>, <<2>>>>]
ParamValues == {Rows2}
InputValues == {Fill(1, 1, 2), Fill(2, 1, 3)}
IndexLists == {<<1>>, <<2, 1>>}

\* the state after the leaf constructors ns (parameter k of ns on store k)
Leaves(ns, sts) ==
    /\ nodes = ns
    /\ handles = [n \in 1..Len(ns) |-> Variable_new(n, LeafParameters(ns, n))]
    /\ stores = sts
    /\ aborted = FALSE
    /\ steps = 0
    /\ last = Last("init", 0, 0, NoArr, <<>>)
    /\ workers = <<>>

Building == steps = 0

Build(kinds, lim) ==
    \/ /\ Building /\ Made < lim
       /\ \E op \in kinds \cap BinaryKinds, h1 \in Handles, h2 \in Handles :
            Binary(op, h1, h2)
    \/ /\ Building /\ Made < lim
       /\ \E op \in kinds \cap BinaryKinds, h \in Handles, c \in Scalars,
             side \in {"lhs", "rhs"} : Scalar(op, h, c, side)
    \/ /\ Building /\ Made < lim /\ "Neg" \in kinds
       /\ \E h \in Handles : Negate(h)
    \/ /\ Building /\ Made < lim /\ "Index" \in kinds
       /\ \E hp \in Handles, hi \in Handles : Index(hp, hi)

AllKinds == BinaryKinds \cup UnaryKinds \cup {"Index"}

(***************************************************************************)
(* Spec: graph construction.  Two parameters at either order of address,   *)
(* an input and an index input; at most MaxOps constructions or clones.    *)
(***************************************************************************)
MaxOps == 2

Init ==
    \E a1 \in Addrs : \E a2 \in Addrs \ {a1} :
        Leaves(<<ParameterNode_new(Rows2, a1, 1), ParameterNode_new(Rows2, a2, 2),
                 InputNode_new(Fill(1, 1, 2)), IndexInputNode_new(<<2, 1>>)>>,
               <<Rows2, Rows2>>)

Next ==
    \/ Build(AllKinds, MaxOps)
    \/ /\ Building /\ Made < MaxOps
       /\ \E h \in Handles : Clone(h)

Spec == Init /\ [][Next]_vars

(***************************************************************************)
(* SpecRun: build one operator node over a parameter, an input and an      *)
(* index input, or none, then make at most MaxSteps calls on the handles.  *)
(***************************************************************************)

InitRun ==
    Leaves(<<ParameterNode_new(Rows2, 1, 1), InputNode_new(Fill(1, 1, 2)),
             IndexInputNode_new(<<2, 1>>)>>,
           <<Rows2>>)

Run ==
    \/ \E h \in Handles, v \in ParamValues : SetValueParameter(h, v)
    \/ \E h \in Handles, v \in InputValues : SetValueInput(h, v)
    \/ \E h \in Handles, ix \in IndexLists : SetValueIndex(h, ix)
    \/ \E h \in Handles : Forward(h)
    \/ \E h \in Handles, w \in Weights : Backward(h, w)
    \/ \E h \in Handles : ZeroGradient(h)

NextRun ==
    \/ Made = 0 /\ Build(AllKinds, MaxOps)
    \/ Run

SpecRun == InitRun /\ [][NextRun]_vars

\* the handle made last: the root of the graph built so far
Root == Len(handles)

\* zero_gradient, forward and backward on the root
RunRoot ==
    \/ ZeroGradient(Root)
    \/ Forward(Root)
    \/ \E w \in Weights : Backward(Root, w)

(***************************************************************************)
(* SpecConstSub: tests::test_constant_sub and its neighbours.  One         *)
(* parameter of ones; at most MaxOps scalar Sub or Mul constructions, then *)
(* calls on the root.                                                      *)
(***************************************************************************)
Ones == Fill(2, 1, 1)
SubScalars == {1, 2}

InitConstSub == Leaves(<<ParameterNode_new(Ones, 1, 1)>>, <<Ones>>)

NextConstSub ==
    \/ /\ Building /\ Made < MaxOps
       /\ \E op \in {"Sub", "Mul"}, h \in Handles, c \in SubScalars,
             side \in {"lhs", "rhs"} : Scalar(op, h, c, side)
    \/ RunRoot

SpecConstSub == InitConstSub /\ [][NextConstSub]_vars

(***************************************************************************)
(* SpecAdd: tests::add_finite_difference and its neighbours.  Two          *)
(* parameters; at most MaxChain Add constructions, each with the root as   *)
(* an operand, then calls on the root.                                     *)
(***************************************************************************)
MaxChain == 3

InitAdd ==
    Leaves(<<ParameterNode_new(Rows2, 1, 1), ParameterNode_new(Rows2, 2, 2)>>,
           <<Rows2, Rows2>>)

NextAdd ==
    \/ /\ Building /\ Made < MaxChain
       /\ \E h1 \in Handles, h2 \in Handles :
            /\ Root \in {h1, h2}
            /\ Binary("Add", h1, h2)
    \/ RunRoot

SpecAdd == InitAdd /\ [][NextAdd]_vars

(***************************************************************************)
(* SpecSparse: tests::sparse_index_finite_difference and its neighbours.   *)
(* One parameter of two rows and two index leaves of one row each; at most *)
(* MaxChain Index or Add constructions, then calls on the root.            *)
(***************************************************************************)
InitSparse ==
    \E r1 \in 1..2, r2 \in 1..2 :
        Leaves(<<ParameterNode_new(Rows2, 1, 1), IndexInputNode_new(<<r1>>),
                 IndexInputNode_new(<<r2>>)>>,
               <<Rows2>>)

NextSparse ==
    \/ /\ Building /\ Made < MaxChain
       /\ \E hp \in Handles, hi \in Handles : Index(hp, hi)
    \/ /\ Building /\ Made < MaxChain
       /\ \E h1 \in Handles, h2 \in Handles :
            /\ Root \in {h1, h2}
            /\ Binary("Add", h1, h2)
    \/ RunRoot

SpecSparse == InitSparse /\ [][NextSparse]_vars

(***************************************************************************)
(* SpecSlots: the accumulator of one parameter of two rows under dense and *)
(* sparse contributions.  Two index leaves, one with a repeated row; at    *)
(* most MaxOps Index constructions, then backward on any handle and        *)
(* zero_gradient on the root.                                              *)
(***************************************************************************)
InitSlots ==
    Leaves(<<ParameterNode_new(Rows2, 1, 1), IndexInputNode_new(<<1, 1>>),
             IndexInputNode_new(<<2>>)>>,
           <<Rows2>>)

NextSlots ==
    \/ /\ Building /\ Made < MaxOps
       /\ \E hp \in Handles, hi \in Handles : Index(hp, hi)
    \/ ZeroGradient(Root)
    \/ \E h \in Handles, w \in Weights : Backward(h, w)

SpecSlots == InitSlots /\ [][NextSlots]_vars

(***************************************************************************)
(* SpecDot: tests::vector_dot_finite_difference and its neighbours.  A     *)
(* parameter and an input of shape [2, 2] and an input of shape [2, 1]; at *)
(* most MaxOps vector_dot constructions, the first on the leaves and each  *)
(* later one on the root, then set_value on the leaves and forward and     *)
(* backward on the root.                                                   *)
(***************************************************************************)
M22 == [rows |-> 2, cols |-> 2, data |-> <<<<1, 2>>, <<3, 4>>>>]
A22 == [rows |-> 2, cols |-> 2, data |-> <<<<1, 0>>, <<2, 1>>>>]
DotInputs == {M22, Fill(1, 2, 3)}

InitDot ==
    Leaves(<<ParameterNode_new(M22, 1, 1), InputNode_new(A22), InputNode_new(Rows2)>>,
           <<M22>>)

NextDot ==
    \/ /\ Building /\ Made < MaxOps
       /\ \E h1 \in Handles, h2 \in Handles :
            (Made = 0 \/ Root \in {h1, h2}) /\ VectorDot(h1, h2)
    \/ \E h \in Handles : SetValueParameter(h, A22)
    \/ \E h \in Handles, v \in DotInputs : SetValueInput(h, v)
    \/ Forward(Root)
    \/ \E w \in Weights : Backward(Root, w)

SpecDot == InitDot /\ [][NextDot]_vars

(***************************************************************************)
(* SpecMatMul: dot_finite_difference with operands of shapes [2, 2],       *)
(* [2, 1] and [1, 2]: at most MaxOps dot products, the first on two leaves *)
(* and each later one on the root, then set_value, forward and backward.   *)
(***************************************************************************)
R12 == [rows |-> 1, cols |-> 2, data |-> <<<<3, 5>>>>]

InitMatMul ==
    Leaves(<<ParameterNode_new(M22, 1, 1), ParameterNode_new(Rows2, 2, 2),
             InputNode_new(R12)>>,
           <<M22, Rows2>>)

NextMatMul ==
    \/ /\ Building /\ Made < MaxOps
       /\ \E h1 \in Handles, h2 \in Handles :
            (Made = 0 \/ Root \in {h1, h2}) /\ Dot(h1, h2)
    \/ \E h \in Handles, v \in {A22, Fill(2, 1, 3)} : SetValueParameter(h, v)
    \/ Forward(Root)
    \/ \E w \in Weights : Backward(Root, w)

SpecMatMul == InitMatMul /\ [][NextMatMul]_vars

(***************************************************************************)
(* SpecSoftmax: softmax_finite_difference with parameters of shapes [2, 2] *)
(* and [1, 2]: negations and softmaxes of whole-number operands, then      *)
(* set_value, forward and backward.  Softmax values are fixed-point.       *)
(***************************************************************************)
InitSoftmax ==
    Leaves(<<ParameterNode_new(M22, 1, 1), ParameterNode_new(R12, 2, 2)>>,
           <<M22, R12>>)

NextSoftmax ==
    \/ /\ Building /\ Made < MaxOps
       /\ \E h \in Handles : (Made = 0 \/ h = Root) /\ Negate(h)
    \/ /\ Building /\ Made < MaxOps
       /\ \E h \in ArrHandles : InExpTable(Value(nodes, handles[h].node)) /\ Softmax(h)
    \/ \E h \in Handles, v \in {A22, Fill(1, 2, 4)} : SetValueParameter(h, v)
    \/ Forward(Root)
    \/ \E w \in Weights : Backward(Root, w)

SpecSoftmax == InitSoftmax /\ [][NextSoftmax]_vars

(***************************************************************************)
(* SpecFresh: a parameter, an input and an index input; at most MaxOps     *)
(* constructions, the first on the leaves and each later one on the root   *)
(* (Index on the leaves), then set_value on the leaves with new values and *)
(* clear and forward on the root.                                          *)
(***************************************************************************)
NewParam == Fill(2, 1, 3)
NewInput == Fill(1, 1, 5)
NewIndex == <<1, 2>>

NextFresh ==
    \/ /\ Building /\ Made < MaxOps
       /\ \E op \in BinaryKinds, h1 \in Handles, h2 \in Handles :
            /\ Made = 0 \/ Root \in {h1, h2}
            /\ Binary(op, h1, h2)
    \/ /\ Building /\ Made < MaxOps
       /\ \E h \in Handles :
            /\ Made = 0 \/ h = Root
            /\ Negate(h)
    \/ /\ Building /\ Made < MaxOps
       /\ \E hp \in Handles, hi \in Handles : Index(hp, hi)
    \/ \E h \in Handles : SetValueParameter(h, NewParam)
    \/ \E h \in Handles : SetValueInput(h, NewInput)
    \/ \E h \in Handles : SetValueIndex(h, NewIndex)
    \/ Clear(Root)
    \/ Forward(Root)

SpecFresh == InitRun /\ [][NextFresh]_vars

(***************************************************************************)
(* SpecShared: two ParameterNode::shared on one HogwildParameter and one   *)
(* ParameterNode::new; one Add or Mul construction or none, then set_value *)
(* on the parameters and backward(1) and zero_gradient on any handle.      *)
(***************************************************************************)
InitShared ==
    Leaves(<<ParameterNode_shared(<<Rows2, Rows2>>, 1, 1),
             ParameterNode_shared(<<Rows2, Rows2>>, 1, 2),
             ParameterNode_new(Rows2, 3, 2)>>,
           <<Rows2, Rows2>>)

NextShared ==
    \/ /\ Building /\ Made = 0
       /\ \E op \in {"Add", "Mul"}, h1 \in Handles, h2 \in Handles :
            Binary(op, h1, h2)
    \/ \E h \in Handles : SetValueParameter(h, NewParam)
    \/ \E h \in Handles : Backward(h, 1)
    \/ \E h \in Handles : ZeroGradient(h)

SpecShared == InitShared /\ [][NextShared]_vars

(***************************************************************************)
(* SpecHogwild: the training loop of tests::hogwild_embedding_             *)
(* factorization, run by two worker threads.  Worker w has its own graph   *)
(* y = p + x over a ParameterNode::shared on store 1 and an input of its   *)
(* own; it runs MaxIters times: set_value on x, y.forward(), y.backward(w) *)
(* and the optimizer's step over y's parameters.  The threads share        *)
(* nothing but the store, and nothing orders their accesses to it: every   *)
(* element read and every element write is a step of its own, and a read   *)
(* of an element returns the value the element holds at that step.         *)
(***************************************************************************)
MaxIters == 1

Workers == {1, 2}

\* the nodes and the root handle of worker w's graph
PNode(w) == 3 * (w - 1) + 1
XNode(w) == 3 * (w - 1) + 2
YNode(w) == 3 * (w - 1) + 3

\* the array worker w feeds to its input
InputOf(w) == Fill(2, 1, w)

Worker_new == [pc |-> "set", iter |-> 0, elem |-> 1, loaded |-> 0]

InitHogwild ==
    /\ stores = <<Rows2>>
    /\ LET \* each thread: ParameterNode::shared, InputNode::new, p + x
           Graph(ns, w) ==
               LET n1 == Append(ns, ParameterNode_shared(stores, 1, w))
                   n2 == Append(n1, InputNode_new(Zeros(2, 1)))
               IN  Append(n2, AddNode_new(n2, Len(ns) + 1, Len(ns) + 2))
           ns == Graph(Graph(<<>>, 1), 2)
       IN  /\ nodes = ns
           /\ handles = [n \in 1..Len(ns) |->
                 Variable_new(n, IF ns[n].kind = "Input" THEN <<>>
                                 ELSE <<PNode((n + 2) \div 3)>>)]
    /\ aborted = FALSE
    /\ steps = 0
    /\ last = Last("init", 0, 0, NoArr, <<>>)
    /\ workers = [w \in Workers |-> Worker_new]

\* a thread blocks while another is between the load and the store of an
\* element
StoreFree_locked(w) == \A u \in Workers \ {w} : workers[u].pc # "store"

\* HogwildParameter is a bare array marked Sync: no access to it waits
StoreFree(w) == TRUE

\* what a read of element e of store s can return
ReadOutcomes(s, e) == {FlatAt(stores[s], e)}

Row(a, e) == ((e - 1) \div a.cols) + 1
Col(a, e) == ((e - 1) % a.cols) + 1

WorkerFrame == UNCHANGED <<steps, last>>

\* set_value(&array) on the worker's input
WorkerSetInput(w) ==
    /\ workers[w].pc = "set"
    /\ LET x == XNode(w)
       IN  IF Broadcastable(InputOf(w), nodes[x].value.rows, nodes[x].value.cols)
           THEN /\ nodes' = [nodes EXCEPT ![x].value = Assign(nodes[x].value, InputOf(w))]
                /\ workers' = [workers EXCEPT ![w].pc = "forward", ![w].elem = 1]
                /\ UNCHANGED aborted
           ELSE /\ aborted' = TRUE
                /\ UNCHANGED <<nodes, workers>>
    /\ UNCHANGED <<handles, stores>>
    /\ WorkerFrame

\* AddNode::forward, one element of map_assign_binary per step: the element
\* of the parameter is read from the shared store
WorkerForward(w) ==
    /\ workers[w].pc = "forward"
    /\ LET y == YNode(w)
           e == workers[w].elem
           x == nodes[XNode(w)].value
       IN  IF AddNode_forward_ok(nodes, y)
           THEN /\ \E v \in ReadOutcomes(nodes[PNode(w)].store, e) :
                    nodes' = [nodes EXCEPT
                        ![y].value.data[Row(x, e)][Col(x, e)] = v + FlatAt(x, e)]
                /\ workers' = IF e < FlatLen(nodes[y].value)
                              THEN [workers EXCEPT ![w].elem = e + 1]
                              ELSE [workers EXCEPT ![w].pc = "backward"]
                /\ UNCHANGED aborted
           ELSE /\ aborted' = TRUE
                /\ UNCHANGED <<nodes, workers>>
    /\ UNCHANGED <<handles, stores>>
    /\ WorkerFrame

\* y.backward(w): touches the thread's own buffers and accumulator only
WorkerBackward(w) ==
    /\ workers[w].pc = "backward"
    /\ LET seed == Variable_backward_seed(YNode(w), w)
           st == Node_backward([ns |-> nodes, ab |-> FALSE, calls |-> <<>>],
                               YNode(w), seed)
       IN  IF st.ab
           THEN /\ aborted' = TRUE
                /\ UNCHANGED <<nodes, handles, workers>>
           ELSE /\ nodes' = st.ns
                /\ handles' = [handles EXCEPT ![YNode(w)].grad = <<seed>>]
                /\ workers' = [workers EXCEPT ![w].pc = "load", ![w].elem = 1]
                /\ UNCHANGED aborted
    /\ UNCHANGED stores
    /\ WorkerFrame

\* the optimizer's step, first half of one element: read the element
WorkerLoad(w) ==
    /\ workers[w].pc = "load"
    /\ \E v \in ReadOutcomes(nodes[PNode(w)].store, workers[w].elem) :
        workers' = [workers EXCEPT ![w].pc = "store", ![w].loaded = v]
    /\ UNCHANGED <<nodes, handles, stores, aborted>>
    /\ WorkerFrame

\* the optimizer's step, second half of one element: write the element less
\* its gradient (learning rate 1)
WorkerStore(w) ==
    /\ workers[w].pc = "store"
    /\ LET s == nodes[PNode(w)].store
           e == workers[w].elem
           g == gradient(PNode(w))
           v == workers[w].loaded - FlatAt(g, e)
       IN  /\ stores' = [stores EXCEPT ![s].data[Row(g, e)][Col(g, e)] = v]
           /\ workers' = IF e < FlatLen(g)
                         THEN [workers EXCEPT ![w].pc = "load", ![w].elem = e + 1]
                         ELSE [workers EXCEPT ![w].pc = "zero"]
    /\ UNCHANGED <<nodes, handles, aborted>>
    /\ WorkerFrame

\* the end of the optimizer's step: zero_gradient of the thread's parameter
WorkerZero(w) ==
    /\ workers[w].pc = "zero"
    /\ nodes' = [nodes EXCEPT ![PNode(w)].gradient = GradientAccumulator_zero_gradient(@)]
    /\ workers' = [workers EXCEPT
            ![w].iter = @ + 1,
            ![w].pc = IF workers[w].iter + 1 < MaxIters THEN "set" ELSE "done"]
    /\ UNCHANGED <<handles, stores, aborted>>
    /\ WorkerFrame

Worker(w) ==
    /\ ~aborted
    /\ StoreFree(w)
    /\ \/ WorkerSetInput(w)
       \/ WorkerForward(w)
       \/ WorkerBackward(w)
       \/ WorkerLoad(w)
       \/ WorkerStore(w)
       \/ WorkerZero(w)

NextHogwild == \E w \in Workers : Worker(w)

\* the operating system runs every thread that can run
SpecHogwild ==
    InitHogwild /\ [][NextHogwild]_vars /\ \A w \in Workers : WF_vars(Worker(w))

(***************************************************************************)
(* SpecFrame: a training step in any order.  One operator over a           *)
(* parameter, an input and an index input, then set_value on the leaves    *)
(* and clear, forward, backward and zero_gradient on the root.             *)
(***************************************************************************)
NextFrame ==
    \/ Made = 0 /\ Build(AllKinds, MaxOps)
    \/ \E h \in Handles : SetValueParameter(h, NewParam)
    \/ \E h \in Handles : SetValueInput(h, NewInput)
    \/ \E h \in Handles : SetValueIndex(h, NewIndex)
    \/ Clear(Root)
    \/ Forward(Root)
    \/ Backward(Root, 1)
    \/ ZeroGradient(Root)

SpecFrame == InitRun /\ [][NextFrame]_vars

(***************************************************************************)
(* SpecDag: graphs with fan-out.  At most MaxOps constructions over a      *)
(* parameter, an input and an index input, the first on the leaves and     *)
(* each later one on the root (the root may be both operands), then        *)
(* set_value on the parameter and forward, backward and zero_gradient on   *)
(* the root.                                                               *)
(***************************************************************************)
NextDag ==
    \/ /\ Building /\ Made < MaxOps
       /\ \E op \in BinaryKinds, h1 \in Handles, h2 \in Handles :
            /\ Made = 0 \/ Root \in {h1, h2}
            /\ Binary(op, h1, h2)
    \/ /\ Building /\ Made < MaxOps
       /\ \E h \in Handles :
            /\ Made = 0 \/ h = Root
            /\ Negate(h)
    \/ /\ Building /\ Made < MaxOps
       /\ \E hp \in Handles, hi \in Handles : Index(hp, hi)
    \/ \E h \in Handles : SetValueParameter(h, NewParam)
    \/ Forward(Root)
    \/ Backward(Root, 1)
    \/ ZeroGradient(Root)

SpecDag == InitRun /\ [][NextDag]_vars

(***************************************************************************)
(* SpecFD: finite_difference in single precision.  The arrays of this      *)
(* program hold multiples of 2^-18, written as integers: Unit is 1.0.  An  *)
(* f32 has a significand of Mantissa bits, so an integer n of magnitude in *)
(* [2^(Mantissa-1), 2^Mantissa) is an f32 whose neighbours are n - 1 and   *)
(* n + 1, and above that the spacing doubles with every binade.  Sums and  *)
(* differences of such numbers are exact as long as the result is again a  *)
(* multiple of its own spacing, which the run records in `exact`.          *)
(***************************************************************************)
Mantissa == 24

Unit == 2^18

\* delta_x = 1e-4 is Unit / DeltaInv
DeltaInv == 10000

\* TOLERANCE = 0.05 is 1 / ToleranceInv
ToleranceInv == 20

Abs(n) == IF n < 0 THEN 0 - n ELSE n

\* the spacing of the f32 values at magnitude a, in units
RECURSIVE Ulp(_)
Ulp(a) == IF a < 2^Mantissa THEN 1 ELSE 2 * Ulp(a \div 2)

\* n is an f32
Representable(n) == Abs(n) % Ulp(Abs(n)) = 0

\* the perturbed element is a multiple of the unit
InDomain(n) == Abs(n) >= 2^(Mantissa - 1) /\ Representable(n)

\* changed_input[idx] += 0.5 * delta_x (sign 1) and -= (sign -1) in f32: the
\* sum is rounded to the nearest multiple of the spacing at n
f32_add_half_delta(n, sign) ==
    LET ulp == Ulp(Abs(n))
        \* Unit / (2 * DeltaInv * ulp) rounded to the nearest integer
        k == (2 * Unit + 2 * DeltaInv * ulp) \div (4 * DeltaInv * ulp)
    IN  n + sign * k * ulp

\* Variable::zero_gradient of handle h on arena ns
Variable_zero_gradient(ns, h) ==
    [n \in 1..Len(ns) |->
        IF InList(n, handles[h].parameters)
        THEN [ns[n] EXCEPT !.gradient = GradientAccumulator_zero_gradient(@)]
        ELSE ns[n]]

\* every cached value and every store holds f32 values only
AllRepresentable(ns, sts) ==
    /\ \A n \in 1..Len(ns) : \A k \in 1..FlatLen(ns[n].value) :
            Representable(FlatAt(ns[n].value, k))
    /\ \A s \in 1..Len(sts) : \A k \in 1..FlatLen(sts[s]) :
            Representable(FlatAt(sts[s], k))

FDFrame == UNCHANGED <<steps, last>>

\* finite_difference(input, output): delta_x, initial_input, central_difference
FiniteDifference_begin(hi, ho) ==
    /\ ~aborted /\ workers = <<>>
    /\ hi \in KindHandles("Parameter") /\ ho \in ArrHandles
    /\ LET initial_input == Value(nodes, handles[hi].node)
       IN  /\ \A k \in 1..FlatLen(initial_input) : InDomain(FlatAt(initial_input, k))
           /\ workers' = <<[pc |-> "probe", input |-> hi, output |-> ho,
                            initial_input |-> initial_input,
                            idx |-> 1, sign |-> 1, final |-> FALSE,
                            positive_difference |-> NoArr,
                            central_difference |-> Scale(initial_input, 0),
                            gradient |-> NoArr,
                            exact |-> AllRepresentable(nodes, stores)]>>
    /\ UNCHANGED <<nodes, handles, stores, aborted>>
    /\ FDFrame

\* output.zero_gradient(); changed_input[idx] +-= 0.5 * delta_x;
\* input.set_value(&changed_input)
FiniteDifference_probe ==
    /\ ~aborted /\ workers # <<>> /\ workers[1].pc = "probe"
    /\ LET fd == workers[1]
           initial == fd.initial_input
           r == ((fd.idx - 1) \div initial.cols) + 1
           c == ((fd.idx - 1) % initial.cols) + 1
           changed_input == [initial EXCEPT !.data[r][c] = f32_add_half_delta(@, fd.sign)]
           s == nodes[handles[fd.input].node].store
       IN  /\ nodes' = Variable_zero_gradient(nodes, fd.output)
           /\ stores' = [stores EXCEPT ![s] = Assign(stores[s], changed_input)]
           /\ workers' = <<[fd EXCEPT !.pc = "forward",
                    !.exact = @ /\ Ulp(Abs(changed_input.data[r][c]))
                                      = Ulp(Abs(initial.data[r][c]))]>>
    /\ UNCHANGED <<handles, aborted>>
    /\ FDFrame

\* output.forward()
FiniteDifference_forward ==
    /\ ~aborted /\ workers # <<>> /\ workers[1].pc = "forward"
    /\ LET fd == workers[1]
           st == Node_forward([ns |-> nodes, ab |-> FALSE, calls |-> <<>>],
                              handles[fd.output].node)
       IN  IF st.ab
           THEN /\ aborted' = TRUE
                /\ UNCHANGED <<nodes, workers>>
           ELSE /\ nodes' = st.ns
                /\ workers' = <<[fd EXCEPT !.pc = "backward",
                        !.exact = @ /\ AllRepresentable(st.ns, stores)]>>
                /\ UNCHANGED aborted
    /\ UNCHANGED <<handles, stores>>
    /\ FDFrame

\* output.backward(1.0), then what follows it: output.value().clone() in a
\* probe; input.gradient() and output.zero_gradient() at the end
FiniteDifference_backward ==
    /\ ~aborted /\ workers # <<>> /\ workers[1].pc = "backward"
    /\ LET fd == workers[1]
           seed == Variable_backward_seed(fd.output, 1)
           st == Node_backward([ns |-> nodes, ab |-> FALSE, calls |-> <<>>],
                               handles[fd.output].node, seed)
           value == Value(nodes, handles[fd.output].node)
           r == ((fd.idx - 1) \div fd.initial_input.cols) + 1
           c == ((fd.idx - 1) % fd.initial_input.cols) + 1
           diff == ArrSub(fd.positive_difference, value)
       IN  IF st.ab
           THEN /\ aborted' = TRUE
                /\ UNCHANGED <<nodes, handles, workers>>
           ELSE /\ handles' = [handles EXCEPT ![fd.output].grad = <<seed>>]
                /\ UNCHANGED aborted
                /\ IF fd.final
                   THEN /\ nodes' = Variable_zero_gradient(st.ns, fd.output)
                        /\ workers' = <<[fd EXCEPT !.pc = "done",
                                !.gradient = materialized_gradient(
                                    st.ns[handles[fd.input].node].gradient)]>>
                   ELSE /\ nodes' = st.ns
                        /\ workers' =
                            IF fd.sign = 1
                            THEN <<[fd EXCEPT !.pc = "probe", !.sign = -1,
                                              !.positive_difference = value]>>
                            ELSE <<[fd EXCEPT
                                    !.central_difference.data[r][c] =
                                        WholeSum(diff),
                                    !.sign = 1, !.idx = @ + 1,
                                    !.pc = IF fd.idx < FlatLen(fd.initial_input)
                                           THEN "probe" ELSE "restore"]>>
    /\ UNCHANGED stores
    /\ FDFrame

\* output.zero_gradient(); input.set_value(&initial_input)
FiniteDifference_restore ==
    /\ ~aborted /\ workers # <<>> /\ workers[1].pc = "restore"
    /\ LET fd == workers[1]
           s == nodes[handles[fd.input].node].store
       IN  /\ nodes' = Variable_zero_gradient(nodes, fd.output)
           /\ stores' = [stores EXCEPT ![s] = Assign(stores[s], fd.initial_input)]
           /\ workers' = <<[fd EXCEPT !.pc = "forward", !.final = TRUE]>>
    /\ UNCHANGED <<handles, aborted>>
    /\ FDFrame

\* the parameter values of the program: 40.0 and 100.0
FDValues == {Fill(1, 1, 40 * Unit), Fill(1, 1, 100 * Unit),
             [rows |-> 2, cols |-> 1, data |-> <<<<40 * Unit>>, <<100 * Unit>>>>]}

InitFD ==
    \E x \in FDValues, y \in {Fill(1, 1, 100 * Unit)} :
        Leaves(<<ParameterNode_new(x, 1, 1), ParameterNode_new(y, 2, 2),
                 InputNode_new(Fill(1, 1, Unit))>>,
               <<x, y>>)

NextFD ==
    \/ /\ Made < MaxOps /\ workers = <<>>
       /\ \E op \in {"Add", "Sub"}, h1 \in Handles, h2 \in Handles :
            /\ Made = 0 \/ Root \in {h1, h2}
            /\ Binary(op, h1, h2)
    \/ /\ Made < MaxOps /\ workers = <<>>
       /\ \E h \in Handles : (Made = 0 \/ h = Root) /\ Negate(h)
    \/ \E hi \in Handles : FiniteDifference_begin(hi, Root)
    \/ FiniteDifference_probe
    \/ FiniteDifference_forward
    \/ FiniteDifference_backward
    \/ FiniteDifference_restore

SpecFD == InitFD /\ [][NextFD]_vars

(***************************************************************************)
(* Properties.                                                             *)
(***************************************************************************)
\* the Parameter nodes reachable from node n along operand links
RECURSIVE ReachableParameters(_)
ReachableParameters(n) ==
    IF n = 0 THEN {}
    ELSE IF nodes[n].kind = "Parameter" THEN {n}
    ELSE ReachableParameters(nodes[n].lhs) \cup ReachableParameters(nodes[n].rhs)

ListSet(list) == {list[i] : i \in 1..Len(list)}

\* C1: the parameter list of every handle holds exactly the Parameter nodes
\* reachable from the handle's node, each of them once.
C1_ParameterListExact ==
    \A h \in Handles :
        /\ ListSet(handles[h].parameters) = ReachableParameters(handles[h].node)
        /\ Len(handles[h].parameters) = Cardinality(ReachableParameters(handles[h].node))

\* w = z + z with z = x + y over two parameters, and w lists two parameters
C1_Witness ==
    \E h \in Handles :
        LET w == nodes[handles[h].node]
        IN  /\ w.kind = "Add" /\ w.lhs = w.rhs
            /\ nodes[w.lhs].kind = "Add"
            /\ nodes[nodes[w.lhs].lhs].kind = "Parameter"
            /\ nodes[nodes[w.lhs].rhs].kind = "Parameter"
            /\ nodes[w.lhs].lhs # nodes[w.lhs].rhs
            /\ Len(handles[h].parameters) = 2

\* C2: the parameter list of every handle is strictly increasing in the
\* address of its nodes.
C2_ParameterListSorted ==
    \A h \in Handles :
        \A i \in 1..Len(handles[h].parameters), j \in 1..Len(handles[h].parameters) :
            i < j => as_ptr(handles[h].parameters[i]) < as_ptr(handles[h].parameters[j])

\* a clone of an operator's handle whose two parameters were merged into the
\* order of their addresses, against the order of the operands
C2_Witness ==
    \E h \in Handles :
        /\ handles[h].cloned
        /\ nodes[handles[h].node].kind \in BinaryKinds
        /\ Len(handles[h].parameters) = 2
        /\ nodes[handles[h].node].lhs = handles[h].parameters[2]
        /\ nodes[handles[h].node].rhs = handles[h].parameters[1]

FlagsOK ==
    \A n \in 1..Len(nodes) :
        nodes[n].needs_gradient =
            CASE nodes[n].kind = "Parameter" -> TRUE
              [] nodes[n].kind \in {"Input", "IndexInput"} -> FALSE
              [] nodes[n].kind \in UnaryKinds -> nodes[nodes[n].lhs].needs_gradient
              [] OTHER -> nodes[nodes[n].lhs].needs_gradient
                          \/ nodes[nodes[n].rhs].needs_gradient

FlagsKept ==
    \A n \in 1..Len(nodes) : nodes'[n].needs_gradient = nodes[n].needs_gradient

\* C3: needs_gradient is TRUE at a Parameter, FALSE at an Input and at an
\* IndexInput, at an operator node the OR of its operands' flags, and no call
\* changes the flag of an existing node.
C3_NeedsGradient == []FlagsOK /\ [][FlagsKept]_vars

\* an operator over a parameter and an input, after calls that ran through it
C3_Witness ==
    /\ steps >= 2
    /\ last.op = "backward"
    /\ \E n \in 1..Len(nodes) :
        /\ nodes[n].kind \in BinaryKinds
        /\ nodes[nodes[n].lhs].kind = "Parameter"
        /\ nodes[nodes[n].rhs].kind = "Input"
        /\ nodes[n].needs_gradient
        /\ handles[last.h].node = n

\* the all-zero array of the shape of parameter p
ZeroOf(p) == Zeros(stores[nodes[p].store].rows, stores[nodes[p].store].cols)

\* C4: right after zero_gradient() on a handle, the materialized gradient of
\* every parameter of its list is the zero array of the parameter's shape.
C4_ResetLaw ==
    (last.op = "zero_gradient" /\ ~aborted) =>
        \A i \in 1..Len(handles[last.h].parameters) :
            gradient(handles[last.h].parameters[i]) = ZeroOf(handles[last.h].parameters[i])

\* a zero_gradient of a parameter that had accumulated densely and sparsely
C4_Witness ==
    /\ last.op = "zero_gradient" /\ ~aborted
    /\ \E i \in 1..Len(handles[last.h].parameters) :
        LET acc == nodes[handles[last.h].parameters[i]].gradient
        IN  /\ acc.dense_gradient # <<>>
            /\ Len(acc.sparse_gradient) >= 1

\* C8: a backward(w) that returns has passed to the handle's node, once and
\* first, a seed of the shape of the node's value with w at every element,
\* and the handle's buffer holds that seed.
C8_Seed ==
    (last.op = "backward" /\ ~aborted) =>
        LET n == handles[last.h].node
            v == Value(nodes, n)
        IN  /\ last.seed = Fill(v.rows, v.cols, last.w)
            /\ handles[last.h].grad = <<last.seed>>
            /\ last.calls[1] = [node |-> n, gradient |-> last.seed]
            /\ Cardinality({i \in 1..Len(last.calls) : last.calls[i].node = n}) = 1

\* backward(2) on a parameter's handle after backward(1) on the same handle
C8_Witness ==
    /\ last.op = "backward" /\ ~aborted /\ last.w = 2
    /\ nodes[handles[last.h].node].kind = "Parameter"
    /\ gradient(handles[last.h].node) = Fill(2, 1, 3)

\* C10: a backward on the handle of an Index node leaves the dense buffer and
\* has_dense of the parameter as they were, sets has_sparse, and leaves a
\* sparse slot that holds the node's index list.
C10_IndexSparseOnly ==
    [][(last'.op = "backward" /\ ~aborted' /\ steps' = steps + 1
            /\ nodes[handles[last'.h].node].kind = "Index") =>
        LET n == handles[last'.h].node
            p == nodes[n].lhs
        IN  /\ nodes'[p].gradient.dense_gradient = nodes[p].gradient.dense_gradient
            /\ nodes'[p].gradient.has_dense = nodes[p].gradient.has_dense
            /\ nodes'[p].gradient.has_sparse
            /\ \E k \in 1..Len(nodes'[p].gradient.sparse_gradient) :
                nodes'[p].gradient.sparse_gradient[k].index_vec = nodes[n].index_value
       ]_vars

\* after a backward through an Index node the dense buffer is still unallocated
C10_Witness ==
    /\ last.op = "backward" /\ ~aborted
    /\ nodes[handles[last.h].node].kind = "Index"
    /\ nodes[nodes[handles[last.h].node].lhs].gradient.dense_gradient = <<>>
    /\ nodes[nodes[handles[last.h].node].lhs].gradient.has_sparse

\* the dense buffer of parameter node p of arena ns, zero while unallocated
Dense(ns, p) ==
    IF ns[p].gradient.dense_gradient = <<>>
    THEN Zeros(ns[p].gradient.dense_shape[1], ns[p].gradient.dense_shape[2])
    ELSE ns[p].gradient.dense_gradient[1]

\* the sum of the gradients that calls 1..k delivered to node p
RECURSIVE Delivered(_, _, _)
Delivered(calls, p, k) ==
    IF k = 0 THEN Zeros(stores[nodes[p].store].rows, stores[nodes[p].store].cols)
    ELSE IF calls[k].node = p
         THEN ArrAdd(Delivered(calls, p, k - 1), calls[k].gradient)
         ELSE Delivered(calls, p, k - 1)

\* the number of operand paths from node n down to node p
RECURSIVE NumPaths(_, _)
NumPaths(n, p) ==
    IF n = p THEN 1
    ELSE IF nodes[n].kind \in BinaryKinds
         THEN NumPaths(nodes[n].lhs, p) + NumPaths(nodes[n].rhs, p)
    ELSE IF nodes[n].kind \in UnaryKinds \cup {"Index"}
         THEN NumPaths(nodes[n].lhs, p)
    ELSE 0

Parameters == {n \in 1..Len(nodes) : nodes[n].kind = "Parameter"}

\* a backward call adds to the dense buffer what it delivered
DenseAdds ==
    (last'.op = "backward" /\ ~aborted' /\ steps' = steps + 1) =>
        \A p \in Parameters :
            /\ Dense(nodes', p) = ArrAdd(Dense(nodes, p),
                                         Delivered(last'.calls, p, Len(last'.calls)))
            /\ Delivered(last'.calls, p, Len(last'.calls)) =
                    Scale(Fill(Dense(nodes, p).rows, Dense(nodes, p).cols, last'.w),
                          NumPaths(handles[last'.h].node, p))

\* a zero_gradient call leaves the dense buffers of its list at zero
DenseZeroed ==
    (last'.op = "zero_gradient" /\ steps' = steps + 1) =>
        \A i \in 1..Len(handles[last'.h].parameters) :
            Dense(nodes', handles[last'.h].parameters[i]) =
                Scale(Dense(nodes, handles[last'.h].parameters[i]), 0)

\* C5: the dense gradient of a parameter is zero after zero_gradient, and a
\* backward(w) that returns adds to it the sum of the upstream gradients
\* delivered to the parameter, which over Add nodes is w once per path from
\* the root to the parameter.
C5_DenseSum == [][DenseAdds /\ DenseZeroed]_vars

\* z = x + y + x + x
IsXYXX(z) ==
    /\ nodes[z].kind = "Add" /\ nodes[z].rhs = 1
    /\ nodes[nodes[z].lhs].kind = "Add" /\ nodes[nodes[z].lhs].rhs = 1
    /\ nodes[nodes[nodes[z].lhs].lhs].kind = "Add"
    /\ nodes[nodes[nodes[z].lhs].lhs].lhs = 1
    /\ nodes[nodes[nodes[z].lhs].lhs].rhs = 2

\* z = x + y + x + x after three calls of which two are z.backward(1) with
\* no zero_gradient after the first: x holds 6 and y holds 2 at every element
C5_Witness ==
    /\ last.op = "backward" /\ ~aborted /\ last.w = 1 /\ steps = 3
    /\ IsXYXX(handles[last.h].node)
    /\ Dense(nodes, 1) = Fill(2, 1, 6)
    /\ Dense(nodes, 2) = Fill(2, 1, 2)

\* the operator of node n applied to the values of its operands
OperatorValue(n) ==
    CASE nodes[n].kind = "Add" -> ArrAdd(Value(nodes, nodes[n].lhs), Value(nodes, nodes[n].rhs))
      [] nodes[n].kind = "Sub" -> ArrSub(Value(nodes, nodes[n].lhs), Value(nodes, nodes[n].rhs))
      [] nodes[n].kind = "Mul" -> ArrMul(Value(nodes, nodes[n].lhs), Value(nodes, nodes[n].rhs))
      [] nodes[n].kind = "Neg" -> Scale(Value(nodes, nodes[n].lhs), -1)
      [] nodes[n].kind = "Index" -> Select(Value(nodes, nodes[n].lhs), nodes[n].index_value)

\* C6: before any forward, set_value or other call, every operator node's
\* cached value is its operator applied to its operands' values.
C6_InitialValue ==
    Building =>
        \A n \in 1..Len(nodes) :
            nodes[n].kind \notin LeafKinds => nodes[n].value = OperatorValue(n)

\* node y is (1 - x) * 2 over parameter node x
IsConstSub(y, x) ==
    /\ nodes[y].kind = "Mul"
    /\ nodes[nodes[y].rhs].kind = "Input"
    /\ nodes[nodes[y].rhs].value = Fill(2, 1, 2)
    /\ nodes[nodes[y].lhs].kind = "Sub"
    /\ nodes[nodes[nodes[y].lhs].lhs].kind = "Input"
    /\ nodes[nodes[nodes[y].lhs].lhs].value = Fill(2, 1, 1)
    /\ nodes[nodes[y].lhs].rhs = x

\* C7: with x all ones and y = (1 - x) * 2, after y.zero_gradient() and
\* y.forward(), y.backward(1) returns, every element of y's value is 0 and
\* every element of x's gradient is -2.
C7_ConstantSub ==
    [][(/\ IsConstSub(handles[Root].node, 1)
        /\ stores[1] = Ones
        /\ last.op = "forward" /\ last.h = Root /\ ~aborted
        /\ gradient(1) = ZeroOf(1)
        /\ last'.op = "backward" /\ last'.h = Root /\ last'.w = 1
        /\ steps' = steps + 1) =>
            /\ ~aborted'
            /\ Value(nodes', handles[Root].node) = Fill(2, 1, 0)
            /\ materialized_gradient(nodes'[1].gradient) = Fill(2, 1, -2)
       ]_vars

\* y = (1 - x) * 2 after three calls, a forward among them, that end with
\* y.backward(1): y reads 0 and x's gradient reads -2
C7_Witness ==
    /\ IsConstSub(handles[Root].node, 1)
    /\ last.op = "backward" /\ last.h = Root /\ last.w = 1 /\ ~aborted
    /\ steps = 3
    /\ nodes[1].gradient.has_dense
    /\ gradient(1) = Fill(2, 1, -2)
    /\ Value(nodes, handles[Root].node) = Fill(2, 1, 0)

\* node z sums two gathers of row r of parameter 1 through distinct index leaves
IsTwoGathers(z, r) ==
    /\ nodes[z].kind = "Add"
    /\ nodes[nodes[z].lhs].kind = "Index" /\ nodes[nodes[z].rhs].kind = "Index"
    /\ nodes[nodes[z].lhs].lhs = 1 /\ nodes[nodes[z].rhs].lhs = 1
    /\ nodes[nodes[z].lhs].rhs # nodes[nodes[z].rhs].rhs
    /\ nodes[nodes[nodes[z].lhs].rhs].ivalue = <<r>>
    /\ nodes[nodes[nodes[z].rhs].rhs].ivalue = <<r>>

\* every sparse slot of the accumulator is empty and the dense buffer is zero
Fresh(acc) ==
    /\ materialized_gradient(acc) = Zeros(acc.dense_shape[1], acc.dense_shape[2])
    /\ \A k \in 1..Len(acc.sparse_gradient) : acc.sparse_gradient[k].index_vec = <<>>

\* C9: when row r of a parameter is gathered through two distinct index
\* leaves and the gathers are summed, then after zero_gradient and forward a
\* backward(w) returns with the materialized gradient holding 2w on row r
\* and zero on every other row.
C9_SameRowTwice ==
    [][\A r \in 1..2 :
        (/\ IsTwoGathers(handles[Root].node, r)
         /\ last.op = "forward" /\ last.h = Root /\ ~aborted
         /\ Fresh(nodes[1].gradient)
         /\ last'.op = "backward" /\ last'.h = Root
         /\ steps' = steps + 1) =>
            /\ ~aborted'
            /\ materialized_gradient(nodes'[1].gradient) =
                    [rows |-> 2, cols |-> 1,
                     data |-> [i \in 1..2 |-> <<IF i = r THEN 2 * last'.w ELSE 0>>]]
       ]_vars

\* the sum of two gathers of row 2 after four calls that end with
\* backward(2), both slots in use: row 2 holds 4, row 1 holds 0
C9_Witness ==
    /\ IsTwoGathers(handles[Root].node, 2)
    /\ last.op = "backward" /\ last.h = Root /\ last.w = 2 /\ ~aborted
    /\ steps = 4
    /\ Len(nodes[1].gradient.sparse_gradient) = 2
    /\ gradient(1) = [rows |-> 2, cols |-> 1, data |-> <<<<0>>, <<4>>>>]

\* the sum over the pairs <<k, p>> of S of element j of row p of slot k
RECURSIVE SumPairs(_, _, _)
SumPairs(S, slots, j) ==
    IF S = {} THEN 0
    ELSE LET kp == CHOOSE x \in S : TRUE
         IN  slots[kp[1]].grad.data[kp[2]][j] + SumPairs(S \ {kp}, slots, j)

\* the positions of the index lists of the slots that name row r
RowPositions(slots, r) ==
    {kp \in (1..Len(slots)) \X (1..2) :
        /\ kp[2] <= Len(slots[kp[1]].index_vec)
        /\ slots[kp[1]].index_vec[kp[2]] = r}

\* C11: the materialized gradient of a parameter has the parameter's shape,
\* and its element (r, j) is the dense buffer's element (zero while there is
\* no dense buffer) plus, for every slot and every position p of the slot's
\* index list that names r, element j of row p of the slot's gradient.
C11_Materialized ==
    \A x \in Parameters :
        LET acc == nodes[x].gradient
            g == gradient(x)
        IN  /\ Shape(g) = Shape(Value(nodes, x))
            /\ \A r \in 1..g.rows : \A j \in 1..g.cols :
                g.data[r][j] = Dense(nodes, x).data[r][j]
                    + SumPairs(RowPositions(acc.sparse_gradient, r), acc.sparse_gradient, j)

\* a dense contribution and two slots that both hold the list <<1, 1>>
C11_Witness ==
    /\ ~aborted
    /\ nodes[1].gradient.has_dense
    /\ Len(nodes[1].gradient.sparse_gradient) = 2
    /\ \A k \in 1..2 : nodes[1].gradient.sparse_gradient[k].index_vec = <<1, 1>>
    /\ gradient(1).data[1][1] > Dense(nodes, 1).data[1][1]
    /\ gradient(1).data[2][1] = Dense(nodes, 1).data[2][1]

\* the number of slots of the accumulator that hold an index list
Active(acc) ==
    Cardinality({k \in 1..Len(acc.sparse_gradient) :
                    acc.sparse_gradient[k].index_vec # <<>>})

\* the number of calls of backward on Index nodes over parameter x
SparseCalls(calls, x) ==
    Cardinality({i \in 1..Len(calls) :
        nodes[calls[i].node].kind = "Index" /\ nodes[calls[i].node].lhs = x})

Max(a, b) == IF a > b THEN a ELSE b

\* zero_gradient keeps every slot and empties every index list
SlotsKept ==
    (last'.op = "zero_gradient" /\ steps' = steps + 1) =>
        \A i \in 1..Len(handles[last'.h].parameters) :
            LET x == handles[last'.h].parameters[i]
            IN  /\ Len(nodes'[x].gradient.sparse_gradient)
                        = Len(nodes[x].gradient.sparse_gradient)
                /\ Active(nodes'[x].gradient) = 0

\* a backward fills the first empty slot per sparse contribution and adds a
\* slot only when none is empty
SlotsReused ==
    (last'.op = "backward" /\ ~aborted' /\ steps' = steps + 1) =>
        \A x \in Parameters :
            LET acc == nodes[x].gradient
                k == FirstEmptySlot(acc.sparse_gradient)
            IN  /\ Active(nodes'[x].gradient)
                        = Active(acc) + SparseCalls(last'.calls, x)
                /\ Len(nodes'[x].gradient.sparse_gradient)
                        = Max(Len(acc.sparse_gradient), Active(nodes'[x].gradient))
                /\ (SparseCalls(last'.calls, x) = 1 /\ k # 0) =>
                        /\ nodes'[x].gradient.sparse_gradient[k].index_vec # <<>>
                        /\ \A m \in 1..Len(acc.sparse_gradient) :
                            m # k => nodes'[x].gradient.sparse_gradient[m]
                                        = acc.sparse_gradient[m]

\* C12: zero_gradient removes no slot; a sparse accumulation overwrites the
\* first empty slot and adds a slot only when none is empty, so the number
\* of slots is the largest number of contributions between two resets.
C12_HighWater == [][SlotsKept /\ SlotsReused]_vars

\* after two contributions, a reset and one contribution: two slots, the
\* first in use again and the second empty
C12_Witness ==
    /\ last.op = "backward" /\ ~aborted /\ steps = 4
    /\ Len(nodes[1].gradient.sparse_gradient) = 2
    /\ nodes[1].gradient.sparse_gradient[1].index_vec # <<>>
    /\ nodes[1].gradient.sparse_gradient[2].index_vec = <<>>

\* the VectorDot nodes reachable from node n, n included
RECURSIVE DotsUnder(_)
DotsUnder(n) ==
    IF nodes[n].kind = "VectorDot"
    THEN {n} \cup DotsUnder(nodes[n].lhs) \cup DotsUnder(nodes[n].rhs)
    ELSE {}

\* the dot product of row i of a with row i of b
RowDot(a, b, i) ==
    LET prod[j \in 0..a.cols] == IF j = 0 THEN 0 ELSE prod[j - 1] + a.data[i][j] * b.data[i][j]
    IN  prod[a.cols]

\* node n holds one dot product per row of its operands
HoldsRowDots(n) ==
    LET l == Value(nodes, nodes[n].lhs)
        r == Value(nodes, nodes[n].rhs)
    IN  /\ Shape(l) = Shape(r)
        /\ Shape(nodes[n].value) = <<l.rows, 1>>
        /\ \A i \in 1..l.rows : nodes[n].value.data[i][1] = RowDot(l, r, i)

\* C13: vector_dot of operands of different shapes aborts at construction;
\* a constructed node holds, at construction and after every forward that
\* reaches it, an array of shape [rows, 1] whose entry i is the dot product
\* of row i of lhs with row i of rhs.
C13_VectorDot ==
    /\ [](Building => \A n \in 1..Len(nodes) :
                        nodes[n].kind = "VectorDot" => HoldsRowDots(n))
    /\ []((last.op = "forward" /\ ~aborted) =>
            \A n \in DotsUnder(handles[last.h].node) : HoldsRowDots(n))
    /\ [][\A h1 \in ArrHandles, h2 \in ArrHandles :
            (Made < MaxOps /\ VectorDot(h1, h2)) =>
                (aborted' <=> Shape(Value(nodes, handles[h1].node))
                                # Shape(Value(nodes, handles[h2].node)))]_vars

\* a forward of p.vector_dot(a) after the parameter and the input were set
C13_Witness ==
    /\ last.op = "forward" /\ ~aborted
    /\ nodes[handles[last.h].node].kind = "VectorDot"
    /\ nodes[handles[last.h].node].lhs = 1
    /\ nodes[handles[last.h].node].rhs = 2
    /\ stores[1] = A22 /\ nodes[2].value = M22
    /\ nodes[handles[last.h].node].value = [rows |-> 2, cols |-> 1, data |-> <<<<1>>, <<10>>>>]

\* C14: set_value(&array) on an Input leaf never changes the leaf's shape,
\* and a call with an array of another shape aborts and leaves the leaf's
\* value as it was.
C14_InputShape ==
    [][\A h \in KindHandles("Input"), v \in DotInputs :
        SetValueInput(h, v) =>
            /\ Shape(nodes'[handles[h].node].value) = Shape(nodes[handles[h].node].value)
            /\ Shape(v) # Shape(nodes[handles[h].node].value) =>
                    (aborted' /\ nodes' = nodes)
       ]_vars

\* the Input nodes that no handle names: the constants of scalar operators
Constants ==
    {n \in 1..Len(nodes) :
        nodes[n].kind = "Input" /\ \A h \in Handles : handles[h].node # n}

\* the state right after `h op c` or `c op h`: the node before the new one
\* is the constant
ConstantMade ==
    (last.op \in BinaryKinds /\ last.w # 0 /\ ~aborted) =>
        LET n == handles[last.h].node
            k == n - 1
            other == IF nodes[n].lhs = k THEN nodes[n].rhs ELSE nodes[n].lhs
        IN  /\ k \in {nodes[n].lhs, nodes[n].rhs}
            /\ nodes[k].kind = "Input"
            /\ ~nodes[k].needs_gradient
            /\ nodes[k].value = Fill(Value(nodes, other).rows, Value(nodes, other).cols, last.w)
            /\ \E h \in Handles :
                /\ handles[h].node = other
                /\ handles[last.h].parameters = handles[h].parameters

\* no call changes a constant
ConstantKept == \A n \in Constants : nodes'[n] = nodes[n]

\* C15: `h op c` and `c op h` make an Input leaf of the shape of h's value
\* that holds c at every element and needs no gradient; the result's
\* parameter list is h's; no later call changes the constant.
C15_ScalarConstant == []ConstantMade /\ [][ConstantKept]_vars

\* a constant of shape [2, 1] made for the parameter, after a set_value, a
\* forward and a backward
C15_Witness ==
    /\ ~aborted /\ steps >= 3 /\ last.op = "backward"
    /\ nodes[1].gradient.has_dense
    /\ \E n \in Constants :
        /\ nodes[n].value = Fill(2, 1, 2)
        /\ nodes[handles[last.h].node].kind \in BinaryKinds
        /\ n \in {nodes[handles[last.h].node].lhs, nodes[handles[last.h].node].rhs}

\* the operator nodes reachable from node n, n included
RECURSIVE OperatorsUnder(_)
OperatorsUnder(n) ==
    IF nodes[n].kind \in BinaryKinds
    THEN {n} \cup OperatorsUnder(nodes[n].lhs) \cup OperatorsUnder(nodes[n].rhs)
    ELSE IF nodes[n].kind \in UnaryKinds THEN {n} \cup OperatorsUnder(nodes[n].lhs)
    ELSE IF nodes[n].kind = "Index" THEN {n}
    ELSE {}

\* the operator of node n applied to the current values of its operands
CurrentValue(n) ==
    IF nodes[n].kind = "Index"
    THEN Select(Value(nodes, nodes[n].lhs), nodes[nodes[n].rhs].ivalue)
    ELSE OperatorValue(n)

StoreShared ==
    (last'.op = "set_value" /\ ~aborted' /\ steps' = steps + 1) =>
        LET n == handles[last'.h].node
        IN  \A m \in Parameters :
                IF nodes[m].store = nodes[n].store
                THEN stores'[nodes[m].store] = stores'[nodes[n].store]
                ELSE stores'[nodes[m].store] = stores[nodes[m].store]

\* backward and zero_gradient on a handle leave the accumulator of every
\* parameter node outside its list as it was
AccumulatorOwned ==
    (last'.op \in {"backward", "zero_gradient"} /\ steps' = steps + 1) =>
        \A m \in Parameters :
            ~InList(m, handles[last'.h].parameters) =>
                nodes'[m].gradient = nodes[m].gradient

\* C17: parameter nodes made by ParameterNode::shared from one
\* HogwildParameter read the value written through either, each has its own
\* accumulator that backward and zero_gradient on the other leave alone, and
\* a node made by ParameterNode::new is on a store of its own.
C17_SharedStore ==
    /\ [](\A m \in Parameters : (nodes[m].store = nodes[3].store) = (m = 3))
    /\ [](Value(nodes, 1) = Value(nodes, 2))
    /\ [][StoreShared /\ AccumulatorOwned]_vars

\* the first sharer was set and has accumulated, the second reads the new
\* value and its accumulator is untouched; the third keeps its old value
C17_Witness ==
    /\ ~aborted
    /\ last.op = "zero_gradient" /\ handles[last.h].node = 2
    /\ Value(nodes, 2) = NewParam
    /\ Value(nodes, 3) = Rows2
    /\ nodes[1].gradient.has_dense
    /\ nodes[2].gradient = GradientAccumulator_new(<<2, 1>>)

AllDone == \A w \in Workers : workers[w].pc = "done"

\* a thread that has not finished can take its next step
NoWait == \A w \in Workers : workers[w].pc # "done" => ENABLED Worker(w)

\* every element of the store is its initial value less the updates of a
\* subset of the iterations of each worker (worker w's update of an element
\* is w), and, once all are done, less at least one update
LostUpdatesOnly ==
    \A e \in 1..FlatLen(stores[1]) :
        \E a \in 0..MaxIters, b \in 0..MaxIters :
            /\ FlatAt(stores[1], e) = FlatAt(Rows2, e) - a - 2 * b
            /\ a <= workers[1].iter + 1 /\ b <= workers[2].iter + 1
            /\ AllDone => a + b >= 1

Mismatched ==
    {n \in 1..Len(nodes) :
        /\ nodes[n].kind \in BinaryKinds
        /\ Shape(Value(nodes, nodes[n].lhs)) # Shape(Value(nodes, nodes[n].rhs))}

\* C19: no binary arithmetic node whose operands' value shapes differ is
\* ever both constructed and forwarded: a forward() that returns has
\* recomputed no such node.
C19_MismatchFatal ==
    (last.op = "forward" /\ ~aborted) =>
        OperatorsUnder(handles[last.h].node) \cap Mismatched = {}

\* the array nodes: every node but the index leaves
ArrNodes == {n \in 1..Len(nodes) : IsArrNode(nodes, n)}

\* a step that does not abort leaves the shape of every node's value as it was
ShapeKept ==
    ~aborted' => \A n \in ArrNodes : Shape(Value(nodes', n)) = Shape(Value(nodes, n))

\* the Index nodes under node n whose index leaf holds a list of another
\* length than the node's value has rows
Relisted(n) ==
    {m \in OperatorsUnder(n) :
        /\ nodes[m].kind = "Index"
        /\ Len(nodes[nodes[m].rhs].ivalue) # nodes[m].value.rows}

\* C20: no call that returns changes the shape of any node's cached value,
\* and a forward() that reaches an Index node whose index leaf was given a
\* list of another length aborts and leaves every value as it was; a
\* forward() that returns leaves every Index node holding the rows its
\* current list selects.
C20_ShapeFixed ==
    /\ [][ShapeKept]_vars
    /\ [][\A h \in Handles :
            (Forward(h) /\ Relisted(handles[h].node) # {}) =>
                (aborted' /\ nodes' = nodes /\ stores' = stores)]_vars
    /\ []((last.op = "forward" /\ ~aborted) =>
            \A n \in OperatorsUnder(handles[last.h].node) :
                nodes[n].kind = "Index" =>
                    nodes[n].value = Select(Value(nodes, nodes[n].lhs),
                                            nodes[nodes[n].rhs].ivalue))

\* a forward() of an Index node has aborted on a list of another length
C20_Witness ==
    /\ aborted /\ last.op = "forward"
    /\ Relisted(handles[last.h].node) # {}

Leafs == {n \in 1..Len(nodes) : nodes[n].kind \in LeafKinds}

\* forward, clear and set_value leave every accumulator as it was
AccumulatorsKept ==
    (last'.op \in {"forward", "clear", "set_value"} /\ steps' = steps + 1) =>
        \A p \in Parameters : nodes'[p].gradient = nodes[p].gradient

\* forward and clear leave every leaf's value as it was
LeavesKept ==
    (last'.op \in {"forward", "clear"} /\ steps' = steps + 1) =>
        /\ stores' = stores
        /\ \A n \in Leafs : /\ nodes'[n].value = nodes[n].value
                            /\ nodes'[n].ivalue = nodes[n].ivalue

\* backward keeps what an accumulator holds: the dense buffer grows by what
\* was delivered, every slot in use stays as it is, no flag is lowered
BackwardAdds ==
    (last'.op = "backward" /\ ~aborted' /\ steps' = steps + 1) =>
        \A p \in Parameters :
            LET acc == nodes[p].gradient
                new == nodes'[p].gradient
            IN  /\ Dense(nodes', p) = ArrAdd(Dense(nodes, p),
                                             Delivered(last'.calls, p, Len(last'.calls)))
                /\ Len(new.sparse_gradient) >= Len(acc.sparse_gradient)
                /\ \A k \in 1..Len(acc.sparse_gradient) :
                    acc.sparse_gradient[k].index_vec # <<>> =>
                        new.sparse_gradient[k] = acc.sparse_gradient[k]
                /\ acc.has_dense => new.has_dense
                /\ acc.has_sparse => new.has_sparse

\* a step that takes something out of an accumulator is a zero_gradient
ResetByZeroOnly ==
    (\E p \in Parameters :
        \/ nodes[p].gradient.has_dense /\ ~nodes'[p].gradient.has_dense
        \/ nodes[p].gradient.has_sparse /\ ~nodes'[p].gradient.has_sparse
        \/ Active(nodes'[p].gradient) < Active(nodes[p].gradient)
        \/ gradient(p) # ZeroOf(p) /\ materialized_gradient(nodes'[p].gradient) = ZeroOf(p))
    => last'.op = "zero_gradient"

\* C21: forward, clear and set_value change no accumulator, forward and
\* clear change no leaf value, backward only adds to the accumulators, and
\* the one call that resets an accumulator is zero_gradient.
C21_NoAutoReset ==
    [][AccumulatorsKept /\ LeavesKept /\ BackwardAdds /\ ResetByZeroOnly]_vars

\* a forward and a clear have run on a root whose parameter holds a gradient
C21_Witness ==
    /\ last.op \in {"forward", "clear"} /\ ~aborted /\ steps >= 3
    /\ \E p \in Parameters :
        /\ gradient(p) # ZeroOf(p)
        /\ nodes[p].gradient.has_dense \/ nodes[p].gradient.has_sparse

\* every operand of a node was made before the node
Acyclic == \A n \in 1..Len(nodes) : nodes[n].lhs < n /\ nodes[n].rhs < n

\* no step changes the kind or the operands of a node
TopologyKept ==
    /\ Len(nodes') >= Len(nodes)
    /\ \A n \in 1..Len(nodes) :
        /\ nodes'[n].kind = nodes[n].kind
        /\ nodes'[n].lhs = nodes[n].lhs
        /\ nodes'[n].rhs = nodes[n].rhs

\* the number of node visits of a pass from node n: one per path from n
RECURSIVE Visits(_)
Visits(n) ==
    IF nodes[n].kind \in BinaryKinds
    THEN 1 + Visits(nodes[n].lhs) + Visits(nodes[n].rhs)
    ELSE IF nodes[n].kind \in UnaryKinds THEN 1 + Visits(nodes[n].lhs)
    ELSE 1

\* the pass a forward() on handle h would make from this state
ForwardOf(h) ==
    Node_forward([ns |-> nodes, ab |-> FALSE, calls |-> <<>>], handles[h].node)

\* the pass a backward(1) on handle h would make from this state
BackwardOf(h) ==
    Node_backward([ns |-> nodes, ab |-> FALSE, calls |-> <<>>], handles[h].node,
                  Variable_backward_seed(h, 1))

\* a pass from handle h that ends, returning or aborting, after at most one
\* visit per path
Bounded(st, h) ==
    /\ st.ab \in BOOLEAN
    /\ Len(st.calls) <= Visits(handles[h].node)
    /\ ~st.ab => Len(st.calls) = Visits(handles[h].node)

\* C22: on every graph the construction calls can build, the operands of a
\* node are older than the node and never change, every forward() and
\* backward(w) has an outcome (it returns or aborts), and one that returns
\* has visited one node per path from the root, finitely many.
C22_Terminates ==
    /\ []Acyclic
    /\ [][TopologyKept]_vars
    /\ [](\A h \in Handles : Bounded(ForwardOf(h), h))
    /\ [](\A h \in ArrHandles : Bounded(BackwardOf(h), h))
    /\ []((last.op \in {"forward", "backward"} /\ ~aborted) =>
            Len(last.calls) = Visits(handles[last.h].node))

\* a forward or backward has returned from a root over a node with fan-out
C22_Witness ==
    /\ last.op \in {"forward", "backward"} /\ ~aborted
    /\ nodes[handles[last.h].node].kind \in BinaryKinds
    /\ nodes[handles[last.h].node].lhs = nodes[handles[last.h].node].rhs
    /\ nodes[nodes[handles[last.h].node].lhs].kind \notin LeafKinds
    /\ Len(last.calls) >= 7

\* a finite_difference call has returned, and every number it met was an f32
FDDone == workers # <<>> /\ workers[1].pc = "done" /\ workers[1].exact /\ ~aborted

\* assert_close(difference, gradient, TOLERANCE): the difference is the
\* recorded sum over delta_x
Close(difference, analytic) ==
    \A k \in 1..FlatLen(analytic) :
        Abs(FlatAt(difference, k) * DeltaInv - FlatAt(analytic, k) * Unit) * ToleranceInv
            <= Unit

\* C23: when finite_difference returns, its central difference estimate is
\* within 0.05 of the analytic gradient at every element of the parameter,
\* the parameter holds its original value, and the gradients of the
\* output's parameters are zero.
C23_FiniteDifference ==
    FDDone =>
        LET fd == workers[1]
        IN  /\ Close(fd.central_difference, fd.gradient)
            /\ Value(nodes, handles[fd.input].node) = fd.initial_input
            /\ \A i \in 1..Len(handles[fd.output].parameters) :
                gradient(handles[fd.output].parameters[i])
                    = ZeroOf(handles[fd.output].parameters[i])

\* the Dot nodes reachable from node n, n included
RECURSIVE MatMulUnder(_)
MatMulUnder(n) ==
    IF nodes[n].kind = "Dot"
    THEN {n} \cup MatMulUnder(nodes[n].lhs) \cup MatMulUnder(nodes[n].rhs)
    ELSE {}

\* row i of a times column j of b
RowByColumn(a, b, i, j) ==
    LET prod[k \in 0..a.cols] == IF k = 0 THEN 0 ELSE prod[k - 1] + a.data[i][k] * b.data[k][j]
    IN  prod[a.cols]

\* c is the matrix product of a and b
IsProduct(c, a, b) ==
    /\ a.cols = b.rows
    /\ Shape(c) = <<a.rows, b.cols>>
    /\ \A i \in 1..a.rows, j \in 1..b.cols : c.data[i][j] = RowByColumn(a, b, i, j)

\* node n holds the product of its operands' current values
HoldsProduct(n) ==
    IsProduct(nodes[n].value, Value(nodes, nodes[n].lhs), Value(nodes, nodes[n].rhs))

\* call i of the last pass is a backward of a Dot node with upstream g: the
\* next call hands g . rhs^T to lhs, a later one hands lhs^T . g to rhs, and
\* after the node's last call the buffers hold these two products only
PassesProducts(i) ==
    LET n == last.calls[i].node
        g == last.calls[i].gradient
        l == Value(nodes, nodes[n].lhs)
        r == Value(nodes, nodes[n].rhs)
    IN  /\ i < Len(last.calls)
        /\ last.calls[i + 1].node = nodes[n].lhs
        /\ IsProduct(last.calls[i + 1].gradient, g, Transpose(r))
        /\ Shape(last.calls[i + 1].gradient) = Shape(l)
        /\ \E j \in (i + 1)..Len(last.calls) :
            /\ last.calls[j].node = nodes[n].rhs
            /\ IsProduct(last.calls[j].gradient, Transpose(l), g)
            /\ Shape(last.calls[j].gradient) = Shape(r)
        /\ (\A j \in (i + 1)..Len(last.calls) : last.calls[j].node # n) =>
            /\ IsProduct(nodes[n].lhs_gradient, g, Transpose(r))
            /\ IsProduct(nodes[n].rhs_gradient, Transpose(l), g)

\* C24: a Dot node of operands [m, k] and [k, n] holds, at construction and
\* after every forward that reaches it, the [m, n] matrix product of its
\* operands' current values; its backward with upstream g calls lhs with
\* g . transpose(rhs) and rhs with transpose(lhs) . g, and its two scratch
\* buffers hold exactly these products afterwards, whatever they held before.
C24_Dot ==
    /\ (Building => \A n \in 1..Len(nodes) : nodes[n].kind = "Dot" => HoldsProduct(n))
    /\ ((last.op = "forward" /\ ~aborted) =>
            \A n \in MatMulUnder(handles[last.h].node) : HoldsProduct(n))
    /\ ((last.op = "backward" /\ ~aborted) =>
            \A i \in 1..Len(last.calls) :
                nodes[last.calls[i].node].kind = "Dot" => PassesProducts(i))

\* a second backward of ([2, 2] . [2, 1]) . [1, 2] after the parameters changed
C24_Witness ==
    /\ last.op = "backward" /\ ~aborted /\ steps = MaxSteps
    /\ nodes[handles[last.h].node].kind = "Dot"
    /\ nodes[nodes[handles[last.h].node].lhs].kind = "Dot"
    /\ Shape(nodes[nodes[handles[last.h].node].lhs].value) = <<2, 1>>
    /\ Shape(Value(nodes, nodes[handles[last.h].node].rhs)) = <<1, 2>>
    /\ Shape(nodes[handles[last.h].node].value) = <<2, 2>>
    /\ stores[1] = A22
    /\ gradient(1) # Zeros(2, 2)

\* the Softmax nodes reachable from node n, n included
RECURSIVE SoftmaxUnder(_)
SoftmaxUnder(n) ==
    IF nodes[n].kind = "Softmax" THEN {n} \cup SoftmaxUnder(nodes[n].lhs)
    ELSE IF nodes[n].kind = "Neg" THEN SoftmaxUnder(nodes[n].lhs)
    ELSE {}

\* row i of a, as an array of one row
RowOf(a, i) == [rows |-> 1, cols |-> a.cols, data |-> <<a.data[i]>>]

\* row i of node n's value is the softmax of row i of its operand, and sums
\* to one up to the rounding of its elements
RowNormalized(n, i) ==
    LET x == RowOf(Value(nodes, nodes[n].lhs), i)
        y == RowOf(nodes[n].value, i)
    IN  /\ y = DivideBySum(ExpShifted(x, ArrMax(x)))
        /\ Abs(WholeSum(y) - Fixed) <= y.cols

\* call k of the last pass is a backward of a Softmax node: row i of what
\* the operand is called with is row i of the upstream gradient times the
\* Jacobian of row i of the node's value
RowJacobians(k) ==
    LET n == last.calls[k].node
        g == last.calls[k].gradient
    IN  /\ k < Len(last.calls)
        /\ last.calls[k + 1].node = nodes[n].lhs
        /\ Shape(last.calls[k + 1].gradient) = Shape(g)
        /\ \A i \in 1..g.rows :
            RowOf(last.calls[k + 1].gradient, i)
                = general_mat_mul(RowOf(g, i), Jacobian(nodes[n].value.data[i]))

\* C25: at construction and after every forward that reaches it, each row
\* of a Softmax node's value is the softmax of the same row of the operand
\* and sums to one; backward hands the operand, row by row, the upstream
\* row times the Jacobian of the same row of the value.
C25_SoftmaxRows ==
    /\ (Building => \A n \in 1..Len(nodes) :
            nodes[n].kind = "Softmax" =>
                \A i \in 1..nodes[n].value.rows : RowNormalized(n, i))
    /\ ((last.op = "forward" /\ ~aborted) =>
            \A n \in SoftmaxUnder(handles[last.h].node) :
                \A i \in 1..nodes[n].value.rows : RowNormalized(n, i))
    /\ ((last.op = "backward" /\ ~aborted) =>
            \A k \in 1..Len(last.calls) :
                nodes[last.calls[k].node].kind = "Softmax" => RowJacobians(k))

\* the number of call paths of a forward from node n down to node p: an
\* Index node calls no operand
RECURSIVE ForwardPaths(_, _)
ForwardPaths(n, p) ==
    IF n = p THEN 1
    ELSE IF nodes[n].kind \in BinaryKinds
         THEN ForwardPaths(nodes[n].lhs, p) + ForwardPaths(nodes[n].rhs, p)
    ELSE IF nodes[n].kind \in UnaryKinds THEN ForwardPaths(nodes[n].lhs, p)
    ELSE 0

\* how many calls of a pass are calls of node n
CallsAt(calls, n) == Cardinality({i \in 1..Len(calls) : calls[i].node = n})

\* the arena after the operator nodes 1..k under node root were recomputed
\* once each, operands before the nodes that read them
RECURSIVE RecomputedOnce(_, _)
RecomputedOnce(root, k) ==
    IF k = 0 THEN nodes
    ELSE LET ns == RecomputedOnce(root, k - 1)
         IN  IF k \in OperatorsUnder(root) THEN [ns EXCEPT ![k] = Recompute(ns, k)] ELSE ns

\* C26: a forward() that returns has entered every operator node under the
\* root once per call path from the root to it, with no node skipped for
\* having been visited already, and leaves the values that one recomputation
\* of each operator node, operands first, would leave.
C26_NoMemo ==
    /\ ((last.op = "forward" /\ ~aborted) =>
            \A n \in OperatorsUnder(handles[last.h].node) :
                CallsAt(last.calls, n) = ForwardPaths(handles[last.h].node, n))
    /\ (Made > 0 /\ ~aborted /\ ~ForwardOf(Root).ab =>
            /\ ForwardOf(Root).ns = RecomputedOnce(handles[Root].node, Len(nodes))
            /\ \A n \in OperatorsUnder(handles[Root].node) :
                CallsAt(ForwardOf(Root).calls, n) = ForwardPaths(handles[Root].node, n))

\* a forward has returned, after the parameter changed, from a root whose
\* two operands are one operator node: that node was entered twice
C26_Witness ==
    /\ last.op = "forward" /\ ~aborted /\ last.h = Root
    /\ stores[1] = NewParam
    /\ nodes[handles[Root].node].kind \in BinaryKinds
    /\ nodes[handles[Root].node].lhs = nodes[handles[Root].node].rhs
    /\ nodes[nodes[handles[Root].node].lhs].kind \in BinaryKinds \cup UnaryKinds
    /\ CallsAt(last.calls, nodes[handles[Root].node].lhs) = 2

IndexNodes == {n \in 1..Len(nodes) : nodes[n].kind = "Index"}

\* the snapshot of an Index node changes only in a forward that returns,
\* and then to what the index leaf holds
SnapshotKept ==
    \A n \in IndexNodes :
        nodes'[n].index_value # nodes[n].index_value =>
            /\ last'.op = "forward" /\ ~aborted'
            /\ nodes'[n].index_value = nodes[nodes[n].rhs].ivalue

\* C27: the snapshot list of an Index node is written by its forward only
\* (set_value on the index leaf leaves it alone); at construction and after
\* a forward the node's value is the parameter rows the snapshot names; and
\* every backward call of an Index node leaves a sparse slot of the
\* parameter holding the snapshot list, whatever the index leaf holds now.
C27_Snapshot ==
    /\ [][SnapshotKept]_vars
    /\ []((Building \/ (last.op = "forward" /\ ~aborted)) =>
            \A n \in IndexNodes \cap {handles[Root].node} :
                nodes[n].value = Select(Value(nodes, nodes[n].lhs), nodes[n].index_value))
    /\ []((last.op = "backward" /\ ~aborted) =>
            \A i \in 1..Len(last.calls) :
                last.calls[i].node \in IndexNodes =>
                    LET n == last.calls[i].node
                        slots == nodes[nodes[n].lhs].gradient.sparse_gradient
                    IN  \E k \in 1..Len(slots) : slots[k].index_vec = nodes[n].index_value)

\* a backward on an Index node has returned after the index leaf was set to
\* another list than the one the last forward gathered
C27_Witness ==
    /\ last.op = "backward" /\ ~aborted
    /\ handles[last.h].node \in IndexNodes
    /\ LET n == handles[last.h].node
       IN  /\ nodes[nodes[n].rhs].ivalue = NewIndex
           /\ nodes[n].index_value = <<2, 1>>
           /\ nodes[nodes[n].lhs].gradient.sparse_gradient[1].index_vec = <<2, 1>>

\* the gradient of the last backward call of the Index nodes in a pass
LastSparseCall ==
    LET is == {i \in 1..Len(last.calls) : last.calls[i].node \in IndexNodes}
    IN  last.calls[CHOOSE i \in is : \A j \in is : j <= i]

\* C28: every sparse slot with a non-empty index list holds a row block of
\* as many rows as the list has indices, and the slot a backward wrote last
\* holds exactly the rows of the gradient it was called with.
C28_SlotRows ==
    /\ \A p \in Parameters :
        \A k \in 1..Len(nodes[p].gradient.sparse_gradient) :
            LET slot == nodes[p].gradient.sparse_gradient[k]
            IN  slot.index_vec # <<>> => slot.grad.rows = Len(slot.index_vec)
    /\ (last.op = "backward" /\ ~aborted /\ handles[last.h].node \in IndexNodes) =>
        \E k \in 1..Len(nodes[1].gradient.sparse_gradient) :
            /\ nodes[1].gradient.sparse_gradient[k].index_vec
                    = nodes[handles[last.h].node].index_value
            /\ nodes[1].gradient.sparse_gradient[k].grad = LastSparseCall.gradient

\* handle h is an operator over two distinct parameter nodes on one store
SharedPair(h) ==
    LET n == handles[h].node
    IN  /\ nodes[n].kind \in BinaryKinds
        /\ nodes[n].lhs # nodes[n].rhs
        /\ nodes[nodes[n].lhs].kind = "Parameter"
        /\ nodes[nodes[n].rhs].kind = "Parameter"
        /\ nodes[nodes[n].lhs].store = nodes[nodes[n].rhs].store

\* a backward on a shared pair adds to each of the two accumulators the
\* gradients of the calls of that node, and of no other
OwnGradientOnly ==
    \A h \in Handles :
        (SharedPair(h) /\ last'.op = "backward" /\ last'.h = h /\ ~aborted'
                /\ steps' = steps + 1) =>
            \A p \in {nodes[handles[h].node].lhs, nodes[handles[h].node].rhs} :
                /\ CallsAt(last'.calls, p) = 1
                /\ Dense(nodes', p)
                    = ArrAdd(Dense(nodes, p), Delivered(last'.calls, p, Len(last'.calls)))

\* C29: an operator over two parameter nodes that ParameterNode::shared made
\* from one HogwildParameter lists both nodes among its parameters, and a
\* backward on it adds to each node's accumulator the gradient of the call
\* of that node only.
C29_ByIdentity ==
    /\ [](\A h \in Handles : SharedPair(h) =>
            /\ Len(handles[h].parameters) = 2
            /\ InList(nodes[handles[h].node].lhs, handles[h].parameters)
            /\ InList(nodes[handles[h].node].rhs, handles[h].parameters))
    /\ [][OwnGradientOnly]_vars

\* a backward of the product of the two sharers: each accumulator holds the
\* other node's value, after that value was set anew
C29_Witness ==
    /\ last.op = "backward" /\ ~aborted /\ SharedPair(last.h)
    /\ nodes[handles[last.h].node].kind = "Mul"
    /\ stores[1] = NewParam
    /\ handles[last.h].parameters = <<1, 2>>
    /\ gradient(1) = NewParam /\ gradient(2) = NewParam
    /\ gradient(3) = Zeros(2, 1)

\* the handles of the nodes whose value is an array or an index list
LeafHandles == {h \in Handles : nodes[handles[h].node].kind \in LeafKinds}

\* C30: in every state the calls leave behind, on every handle, a forward(),
\* a backward(w), a zero_gradient() and a set_value take each of their
\* borrows of a node's cells (value, scratch gradients, index snapshot,
\* accumulator) without a BorrowError or BorrowMutError.
C30_NoBorrowConflict ==
    /\ \A h \in Handles : Variable_forward_borrows(h)
    /\ \A h \in ArrHandles : Variable_backward_borrows(h)
    /\ \A h \in Handles : Variable_zero_gradient_borrows(h)
    /\ \A h \in LeafHandles : set_value_borrows(h)

\* a backward has returned from x * x over an operator node x
C30_Witness ==
    /\ last.op = "backward" /\ ~aborted
    /\ nodes[handles[last.h].node].kind = "Mul"
    /\ nodes[handles[last.h].node].lhs = nodes[handles[last.h].node].rhs
    /\ nodes[nodes[handles[last.h].node].lhs].kind \in BinaryKinds \cup UnaryKinds \cup {"Index"}
    /\ CallsAt(last.calls, nodes[handles[last.h].node].lhs) = 2

====
